---- MODULE Spec2Model ----
\* A model of the job-search web API of the repository:
\*   - the transient result cache (app/services/cache_service.py),
\*   - the export endpoints that read it (app/api/v1/endpoints/export.py),
\*   - the POST search handler (app/api/v1/endpoints/search.py) and the
\*     search orchestrator it calls (app/services/job_search_service.py).
\* Time is counted in minutes.  Texts (HTTP details, error messages) are
\* sequences of text fragments; "contains" is membership of a fragment.
EXTENDS Integers, Sequences, FiniteSets, TLC

VARIABLES
    now,            \* datetime.utcnow(), in minutes
    cache,          \* SearchResultsCache._cache: a dict, search_id -> CacheEntry
    cleanup_task,   \* SearchResultsCache._cleanup_task: "none" | "sleeping" | "done"
    sweep_due,      \* the time at which the cleanup task's asyncio.sleep ends
    last,           \* the outcome of the last completed cache call or export request
    pc,             \* where the POST search request in progress stands
    req,            \* its SearchRequest (NoRequest when none was constructed)
    n_searches,     \* how many search identifiers _generate_search_id has made
    ext,            \* the call of scrape_jobs on the worker pool
    svc,            \* what JobSearchService.search_jobs returned or raised
    resp,           \* the HTTP answer of the POST search request
    exported,       \* the last call of the export service and what it gave
    normalized,     \* the last row given to the row normalizer and what it gave
    mapped,         \* the last request given to the parameter mapping and its dict
    classified,     \* the last call of _create_search_metadata and its SearchMetadata
    lock,           \* SearchResultsCache._lock: the task that holds it, NULL when free
    tasks,          \* the tasks that call the cache concurrently: where each stands
    sweeps,         \* how many tasks made of _periodic_cleanup() have not finished
    calls           \* the invocations of search_jobs under way together: where each stands

cacheVars == <<now, cache, cleanup_task, sweep_due, last>>
searchVars == <<pc, req, n_searches, ext, svc, resp>>
serviceVars == <<exported, normalized, mapped, classified>>
lockVars == <<lock, tasks, sweeps>>
poolVars == <<calls>>
vars == <<now, cache, cleanup_task, sweep_due, last, pc, req, n_searches, ext, svc, resp,
          exported, normalized, mapped, classified, lock, tasks, sweeps, calls>>

----------------------------------------------------------------------------
\* Bounds of the model

\* the clock stops advancing here
MaxTime == 41
\* the most rows scrape_jobs returns
MaxRows == 2
\* the most searches dispatched
MaxSearches == 2
\* the most invocations of search_jobs under way together
MaxCalls == 5
\* the most error messages a search accumulates
MaxErrors == 2

----------------------------------------------------------------------------
\* Program constants

\* SearchResultsCache.__init__(default_ttl_minutes = 30, ...)
default_ttl_minutes == 30
\* SearchResultsCache.__init__(..., cleanup_interval_minutes = 10)
cleanup_interval_minutes == 10
\* JobSearchService.__init__(default_timeout = 60)
default_timeout == 60
\* ThreadPoolExecutor(max_workers = 4)
max_workers == 4

\* The clock advances by one sweep interval, or by just more than a TTL.
TickSteps == {cleanup_interval_minutes, default_ttl_minutes + 1}

----------------------------------------------------------------------------
\* Values

\* Python's None, where a text is expected
NULL == "<None>"

\* Search identifiers: "search_<hex>" made by _generate_search_id, or the fixed
\* "error_search" of the degraded response.
SearchIdOf(n) == [kind |-> "search", n |-> n]
ErrorSearchId == [kind |-> "error_search", n |-> 0]

\* The identifiers the cache and the export endpoints are called with.
Keys == {SearchIdOf(1), SearchIdOf(2)}

\* jobspy.model.Location; NoLocation stands for None.
Location(city, state, country) ==
    [present |-> TRUE, city |-> city, state |-> state, country |-> country]
NoLocation == [present |-> FALSE, city |-> NULL, state |-> NULL, country |-> NULL]

\* jobspy.model.Compensation; NoCompensation stands for None.  Amounts are
\* the texts of floats ("100.0"), NULL for None.
Compensation(min_amount, max_amount, interval, currency) ==
    [present |-> TRUE, min_amount |-> min_amount, max_amount |-> max_amount,
     interval |-> interval, currency |-> currency]
NoCompensation ==
    [present |-> FALSE, min_amount |-> NULL, max_amount |-> NULL, interval |-> NULL,
     currency |-> NULL]

\* WebJobPost, reduced to the fields the model reads.  job_type is the list
\* of JobType members (<<>> for None), description a text or NULL.
WebJobPost(id, site, search_id, location, compensation, job_type, description) ==
    [id |-> id, site |-> site, search_id |-> search_id, location |-> location,
     compensation |-> compensation, job_type |-> job_type, description |-> description]

JobA == WebJobPost(1, "indeed", SearchIdOf(1), NoLocation,
                   Compensation("100.0", NULL, NULL, "USD"), <<>>, NULL)
JobB == WebJobPost(2, "zip_recruiter", SearchIdOf(1),
                   Location("San Francisco", "CA", "USA"), NoCompensation,
                   <<"FULL_TIME">>, "We are hiring")

\* The batches and metadata dicts the cache is called with.
Batches == {<<>>, <<JobA>>}
Metas == {"meta_1", "meta_2"}

\* CacheEntry(jobs, timestamp, search_metadata)
CacheEntry(jobs, timestamp, search_metadata) ==
    [jobs |-> jobs, timestamp |-> timestamp, search_metadata |-> search_metadata]

\* Stands for "no entry" where a call returns Optional[CacheEntry].
NoEntry == CacheEntry(<<>>, -1, NULL)

\* CacheEntry.is_expired(ttl): utcnow() > timestamp + timedelta(minutes = ttl)
is_expired_lax(entry, ttl_minutes, t) == t >= entry.timestamp + ttl_minutes
is_expired(entry, ttl_minutes, t) == t > entry.timestamp + ttl_minutes

\* dict helpers
DictSet(d, k, v) == [x \in (DOMAIN d) \cup {k} |-> IF x = k THEN v ELSE d[x]]
DictDel(d, ks) == [x \in (DOMAIN d) \ ks |-> d[x]]
EmptyDict == [x \in {} |-> NoEntry]

\* The outcome of a cache call or of an export request, in one shape.
\*   op      the operation
\*   key     the search_id it was called with (ErrorSearchId when it takes none)
\*   found   the boolean a call returns, or "an entry was returned"
\*           (store: an entry was stored under the key before the call)
\*   entry   the CacheEntry returned (NoEntry for None; store: the entry made)
\*   count   the number a call returns (sweep: removed; stats: expired entries),
\*           or the number of expired entries the call deleted or replaced
\*   status  the HTTP status of an export request (0 for a cache call)
\*   detail  the HTTP detail text of an export request
\*   at      the time of the call
Outcome(op, key, found, entry, count, status, detail) ==
    [op |-> op, key |-> key, found |-> found, entry |-> entry,
     count |-> count, status |-> status, detail |-> detail, at |-> now]

NoOutcome ==
    [op |-> "none", key |-> ErrorSearchId, found |-> FALSE, entry |-> NoEntry,
     count |-> 0, status |-> 0, detail |-> <<>>, at |-> 0]

----------------------------------------------------------------------------
\* The transient result cache

\* The count a call reports about the entry under search_id before it.
ExpiredBefore(search_id) ==
    IF search_id \in DOMAIN cache
       /\ now > cache[search_id].timestamp + default_ttl_minutes
    THEN 1 ELSE 0

\* store_search_results, keeping the timestamp of the entry it replaces
store_keeps_stamp(search_id, jobs, search_metadata) ==
    /\ cache' = DictSet(cache, search_id,
                   CacheEntry(jobs,
                              IF search_id \in DOMAIN cache
                                  THEN cache[search_id].timestamp ELSE now,
                              search_metadata))
    /\ IF cleanup_task \in {"none", "done"}
          THEN /\ cleanup_task' = "sleeping"
               /\ sweep_due' = now + cleanup_interval_minutes
          ELSE UNCHANGED <<cleanup_task, sweep_due>>
    /\ last' = Outcome("store", search_id, search_id \in DOMAIN cache,
                       CacheEntry(jobs, now, search_metadata),
                       ExpiredBefore(search_id), 0, <<>>)
    /\ UNCHANGED now

\* SearchResultsCache.store_search_results
store_search_results(search_id, jobs, search_metadata) ==
    /\ cache' = DictSet(cache, search_id, CacheEntry(jobs, now, search_metadata))
    /\ IF cleanup_task \in {"none", "done"}
          THEN /\ cleanup_task' = "sleeping"
               /\ sweep_due' = now + cleanup_interval_minutes
          ELSE UNCHANGED <<cleanup_task, sweep_due>>
    /\ last' = Outcome("store", search_id, search_id \in DOMAIN cache,
                       CacheEntry(jobs, now, search_metadata),
                       ExpiredBefore(search_id), 0, <<>>)
    /\ UNCHANGED now

\* SearchResultsCache.get_search_results: the cache after the call, and the
\* value returned (NoEntry for None).
get_cache_after(search_id) ==
    IF search_id \in DOMAIN cache
       /\ is_expired(cache[search_id], default_ttl_minutes, now)
    THEN DictDel(cache, {search_id})
    ELSE cache

get_returns(search_id) ==
    IF search_id \notin DOMAIN cache THEN NoEntry
    ELSE IF is_expired(cache[search_id], default_ttl_minutes, now) THEN NoEntry
    ELSE cache[search_id]

get_search_results(search_id) ==
    /\ cache' = get_cache_after(search_id)
    /\ last' = Outcome("get", search_id, get_returns(search_id) # NoEntry,
                       get_returns(search_id), ExpiredBefore(search_id), 0, <<>>)
    /\ UNCHANGED <<now, cleanup_task, sweep_due>>

\* remove_search_results, reporting and deleting only an entry that is live
remove_live_only(search_id) ==
    /\ cache' = IF search_id \in DOMAIN cache
                   /\ ~is_expired(cache[search_id], default_ttl_minutes, now)
                THEN DictDel(cache, {search_id}) ELSE cache
    /\ last' = Outcome("remove", search_id,
                       search_id \in DOMAIN cache
                       /\ ~is_expired(cache[search_id], default_ttl_minutes, now),
                       NoEntry, 0, 0, <<>>)
    /\ UNCHANGED <<now, cleanup_task, sweep_due>>

\* SearchResultsCache.remove_search_results
remove_search_results(search_id) ==
    /\ cache' = DictDel(cache, {search_id})
    /\ last' = Outcome("remove", search_id, search_id \in DOMAIN cache,
                       NoEntry, 0, 0, <<>>)
    /\ UNCHANGED <<now, cleanup_task, sweep_due>>

\* expired_keys, taking an entry at the very end of its TTL for expired
expired_keys_lax(t) ==
    {k \in DOMAIN cache : is_expired_lax(cache[k], default_ttl_minutes, t)}

\* The keys whose entries are expired at time t.
expired_keys(t) ==
    {k \in DOMAIN cache : is_expired(cache[k], default_ttl_minutes, t)}

\* SearchResultsCache.get_cache_stats
get_cache_stats ==
    /\ last' = Outcome("stats", ErrorSearchId, TRUE, NoEntry,
                       Cardinality(expired_keys(now)), 0, <<>>)
    /\ UNCHANGED <<now, cache, cleanup_task, sweep_due>>

\* SearchResultsCache.clear_cache
clear_cache ==
    /\ cache' = EmptyDict
    /\ last' = Outcome("clear", ErrorSearchId, TRUE, NoEntry, 0, 0, <<>>)
    /\ UNCHANGED <<now, cleanup_task, sweep_due>>

\* One round of SearchResultsCache._periodic_cleanup: the sleep of one interval
\* has ended, _cleanup_expired_entries runs, and the loop sleeps again.
periodic_cleanup ==
    /\ cleanup_task = "sleeping"
    /\ now >= sweep_due
    /\ cache' = DictDel(cache, expired_keys(now))
    /\ sweep_due' = now + cleanup_interval_minutes
    /\ last' = Outcome("sweep", ErrorSearchId, TRUE, NoEntry,
                       Cardinality(expired_keys(now)), 0, <<>>)
    /\ UNCHANGED <<now, cleanup_task>>

\* Time passes.
Tick ==
    \E d \in TickSteps :
        /\ now + d <= MaxTime
        /\ now' = now + d
        /\ UNCHANGED <<cache, cleanup_task, sweep_due, last>>

\* A round of _periodic_cleanup that fails and ends the loop
periodic_cleanup_fails_and_ends ==
    /\ cleanup_task = "sleeping"
    /\ now >= sweep_due
    /\ cleanup_task' = "done"
    /\ sweep_due' = now + cleanup_interval_minutes
    /\ last' = Outcome("sweep_failed", ErrorSearchId, FALSE, NoEntry, 0, 0,
                       <<"Error during cache cleanup: ", "{e}">>)
    /\ UNCHANGED <<now, cache>>

\* A round of _periodic_cleanup in which _cleanup_expired_entries raises an
\* Exception: the except clause of line 157 prints it and the loop sleeps again.
periodic_cleanup_fails ==
    /\ cleanup_task = "sleeping"
    /\ now >= sweep_due
    /\ sweep_due' = now + cleanup_interval_minutes
    /\ last' = Outcome("sweep_failed", ErrorSearchId, FALSE, NoEntry, 0, 0,
                       <<"Error during cache cleanup: ", "{e}">>)
    /\ UNCHANGED <<now, cache, cleanup_task>>

\* The cleanup task is cancelled (self._cleanup_task.cancel() in __del__, the
\* only call in the application): its await raises CancelledError and the loop
\* breaks.
cancel_cleanup_task ==
    /\ cleanup_task = "sleeping"
    /\ cleanup_task' = "done"
    /\ last' = Outcome("cancel", ErrorSearchId, TRUE, NoEntry, 0, 0, <<>>)
    /\ UNCHANGED <<now, cache, sweep_due>>

\* The shutdown phase of lifespan (app/main.py, after the yield): it prints a
\* line and returns.
lifespan_shutdown ==
    /\ last.op # "shutdown"
    /\ last' = Outcome("shutdown", ErrorSearchId, TRUE, NoEntry, 0, 0, <<>>)
    /\ UNCHANGED <<now, cache, cleanup_task, sweep_due>>

\* The clock of the model stops at MaxTime; the time of the event loop, which
\* asyncio.sleep goes by, does not: a sleep that is to end later ends.
SleepEndsAtHorizon ==
    /\ cleanup_task = "sleeping"
    /\ now < sweep_due
    /\ \A d \in TickSteps : now + d > MaxTime
    /\ sweep_due' = now
    /\ UNCHANGED <<now, cache, cleanup_task, last>>

----------------------------------------------------------------------------
\* Errors (app/models/errors.py)

\* An exception: its class and the attributes the handlers read.  retry_after
\* and timeout_seconds are 0, and site is NULL, where the class has none.
Exc(class, message, error_code, site, retry_after, timeout_seconds, field_errors) ==
    [class |-> class, message |-> message, error_code |-> error_code, site |-> site,
     retry_after |-> retry_after, timeout_seconds |-> timeout_seconds,
     field_errors |-> field_errors]

NoExc == Exc("none", <<>>, "", NULL, 0, 0, <<>>)

JobSearchError(message, error_code) ==
    Exc("JobSearchError", message, error_code, NULL, 0, 0, <<>>)
ValidationError(message, field_errors) ==
    Exc("ValidationError", message, "VALIDATION_ERROR", NULL, 0, 0, field_errors)
RateLimitError(message, site, retry_after) ==
    Exc("RateLimitError", message, "RATE_LIMIT_EXCEEDED", site, retry_after, 0, <<>>)
JobBoardError(message, site) ==
    Exc("JobBoardError", message, "JOB_BOARD_ERROR", site, 0, 0, <<>>)
NetworkError(message) ==
    Exc("NetworkError", message, "NETWORK_ERROR", NULL, 0, 0, <<>>)
SearchTimeoutError(message, timeout_seconds) ==
    Exc("SearchTimeoutError", message, "SEARCH_TIMEOUT", NULL, 0, timeout_seconds, <<>>)
\* An exception that is no JobSearchError.
PlainException(message) == Exc("Exception", message, "", NULL, 0, 0, <<>>)

\* The classes derived directly from JobSearchError.
JobSearchErrorSubclasses ==
    {"ValidationError", "RateLimitError", "JobBoardError", "NetworkError",
     "SearchTimeoutError"}

\* isinstance(an exception of class class, of)
IsInstance(class, of) ==
    \/ class = of
    \/ of = "Exception"
    \/ of = "JobSearchError" /\ class \in JobSearchErrorSubclasses

----------------------------------------------------------------------------
\* The export service (app/services/export_service.py)

\* ExportError(message, export_format = ..., details = ...)
ExportError(message, export_format) ==
    [class |-> "ExportError", message |-> message, export_format |-> export_format]

\* ExportFormat
ExportFormat == {"csv"}

\* ', '.join(texts)
RECURSIVE JoinCommaSpace(_)
JoinCommaSpace(texts) ==
    IF texts = <<>> THEN <<>>
    ELSE IF Len(texts) = 1 THEN <<texts[1]>>
    ELSE <<texts[1], ", ">> \o JoinCommaSpace(Tail(texts))

\* The columns _jobs_to_dataframe fills from fields outside the model: each
\* such field is None.
NoneColumns(names) == [i \in 1..Len(names) |-> <<names[i], NULL>>]

\* The dict _jobs_to_dataframe builds for one job, as the sequence of its
\* (key, value) pairs in insertion order.
JobToRow(job, include_description, include_company_details) ==
  LET \* the first value of a JobType member
      JobTypeText(member) ==
          CASE member = "FULL_TIME" -> "fulltime"
            [] member = "PART_TIME" -> "parttime"
            [] OTHER -> member
      \* the value of a CompensationInterval member
      IntervalText(member) ==
          CASE member = "YEARLY" -> "yearly"
            [] member = "HOURLY" -> "hourly"
            [] OTHER -> member
  IN
    << <<"job_id", job.id>> >>
    \o NoneColumns(<<"title", "company_name", "job_url">>)
    \o << <<"site", job.site>> >>
    \o NoneColumns(<<"date_posted", "is_remote">>)
    \o (IF job.location.present
        THEN << <<"location_city", job.location.city>>,
                <<"location_state", job.location.state>>,
                <<"location_country", job.location.country>> >>
        ELSE NoneColumns(<<"location_city", "location_state", "location_country">>))
    \o (IF job.compensation.present
        THEN << <<"salary_min", job.compensation.min_amount>>,
                <<"salary_max", job.compensation.max_amount>>,
                <<"salary_interval",
                  IF job.compensation.interval # NULL
                      THEN IntervalText(job.compensation.interval) ELSE NULL>>,
                <<"salary_currency", job.compensation.currency>> >>
        ELSE NoneColumns(<<"salary_min", "salary_max", "salary_interval",
                           "salary_currency">>))
    \o << <<"job_type",
            IF job.job_type # <<>>
                THEN JoinCommaSpace([i \in 1..Len(job.job_type) |->
                                        JobTypeText(job.job_type[i])])
                ELSE NULL>> >>
    \o (IF include_description THEN << <<"description", job.description>> >> ELSE <<>>)
    \o (IF include_company_details
        THEN NoneColumns(<<"company_url", "company_industry", "company_num_employees",
                           "company_revenue", "company_rating",
                           "company_reviews_count">>)
        ELSE <<>>)
    \o NoneColumns(<<"job_level", "job_function", "skills", "experience_range",
                     "emails", "listing_type", "work_from_home_type", "vacancy_count">>)

\* pd.DataFrame(data).columns: the keys of the dicts in the order of their
\* first appearance.
RECURSIVE FrameColumns(_, _)
FrameColumns(data, seen) ==
    IF data = <<>> THEN seen
    ELSE FrameColumns(Tail(data),
             seen \o SelectSeq([i \in 1..Len(data[1]) |-> data[1][i][1]],
                               LAMBDA key : \A i \in 1..Len(seen) : seen[i] # key))

\* _jobs_to_dataframe, adding the company details only with the description
_jobs_to_dataframe_nested(jobs, include_description, include_company_details) ==
    LET data == [i \in 1..Len(jobs) |->
                    JobToRow(jobs[i], include_description,
                             include_description /\ include_company_details)]
        columns == FrameColumns(data, <<>>)
    IN  [columns |-> columns,
         rows |-> [i \in 1..Len(data) |->
                      [c \in 1..Len(columns) |-> data[i][c][2]]]]

\* ExportService._jobs_to_dataframe: the columns, and one sequence of cells
\* per job (the value of the job's dict under the column, None when it has
\* no such key).
_jobs_to_dataframe(jobs, include_description, include_company_details) ==
    LET data == [i \in 1..Len(jobs) |->
                    JobToRow(jobs[i], include_description, include_company_details)]
        columns == FrameColumns(data, <<>>)
        ValueOf(row, key) ==
            IF \E i \in 1..Len(row) : row[i][1] = key
            THEN row[CHOOSE i \in 1..Len(row) : row[i][1] = key][2]
            ELSE NULL
    IN  [columns |-> columns,
         rows |-> [i \in 1..Len(data) |->
                      [c \in 1..Len(columns) |-> ValueOf(data[i], columns[c])]]]

NoFrame == [columns |-> <<>>, rows |-> <<>>]

\* The filename of the export: the caller's, or one made from the search
\* identifier, with ".csv" appended unless it ends with it.
GeneratedFilename(filename, search_id) ==
    LET SearchIdText ==
            CASE search_id = SearchIdOf(1) -> "search_1"
              [] search_id = SearchIdOf(2) -> "search_2"
              [] OTHER -> "search_n"
        generated_filename ==
            IF filename \in {NULL, ""}
            THEN <<"job_search_results_", SearchIdText>>
            ELSE <<filename>>
    IN  IF generated_filename[Len(generated_filename)] \in {"jobs.csv", ".csv"}
        THEN generated_filename
        ELSE generated_filename \o <<".csv">>

\* ExportMetadata, without its export_id, timestamp and size.
ExportMetadata(search_id, format, total_jobs_exported, filename) ==
    [search_id |-> search_id, format |-> format,
     total_jobs_exported |-> total_jobs_exported, filename |-> filename]
NoExportMetadata == ExportMetadata(ErrorSearchId, NULL, 0, <<>>)

\* What a call of the export service returned or raised.
ExportReturned(frame, metadata) ==
    [result |-> "returned", frame |-> frame, metadata |-> metadata,
     exc |-> ExportError(<<>>, NULL)]
ExportRaised(exc) ==
    [result |-> "raised", frame |-> NoFrame, metadata |-> NoExportMetadata, exc |-> exc]

\* ExportService.export_jobs_to_csv: the frame written as CSV and the metadata,
\* or the ExportError raised.
export_jobs_to_csv_any(jobs, search_id, include_description, include_company_details, filename) ==
    ExportReturned(_jobs_to_dataframe(jobs, include_description,
                                      include_company_details),
                   ExportMetadata(search_id, "csv", Len(jobs),
                                  GeneratedFilename(filename, search_id)))
export_jobs_to_csv(jobs, search_id, include_description, include_company_details, filename) ==
    IF jobs = <<>>
    THEN ExportRaised(ExportError(<<"No jobs to export">>, "csv"))
    ELSE ExportReturned(_jobs_to_dataframe(jobs, include_description,
                                           include_company_details),
                        ExportMetadata(search_id, "csv", Len(jobs),
                                       GeneratedFilename(filename, search_id)))

\* ExportService.validate_export_request: True, or the ValidationError raised.
validate_export_request(jobs, export_format) ==
    IF jobs = <<>>
    THEN ExportRaised(ValidationError(<<"Cannot export empty job list">>, <<>>))
    ELSE IF export_format \notin ExportFormat
    THEN ExportRaised(ValidationError(<<"Unsupported export format: ", export_format>>,
                                      <<>>))
    ELSE ExportReturned(NoFrame, NoExportMetadata)

----------------------------------------------------------------------------
\* The export endpoints

Contains(text, fragment) == \E i \in 1..Len(text) : text[i] = fragment

\* The detail of the HTTPException(404) each endpoint raises for a missing entry.
ExportNotFoundDetail ==
    <<"Search results not found", " for search_id: {search_id}",
      ". Results may have expired or the search_id is invalid.">>
InfoNotFoundDetail ==
    <<"Search results not found", " for search_id: {search_id}">>

\* str(HTTPException): "<status>: <detail>" where the installed Starlette defines
\* __str__, and the empty text where it does not (the exception is built with
\* keyword arguments only, so its args are empty).
StrOfHTTPException(status_text, detail, has_str) ==
    IF has_str THEN <<status_text>> \o detail ELSE <<>>

\* What the try body of export_search_results raises for the entry the cache
\* returned: lines 48-53, then validate_export_request, then export_jobs_to_csv.
ExportRaises(entry) ==
    IF entry = NoEntry THEN "HTTPException"
    ELSE IF validate_export_request(entry.jobs, "csv").result = "raised"
    THEN validate_export_request(entry.jobs, "csv").exc.class
    ELSE IF export_jobs_to_csv(entry.jobs, ErrorSearchId, TRUE, TRUE, NULL).result
               = "raised"
    THEN "ExportError"
    ELSE "none"

\* The except clauses of export_search_results, in their order: the status and
\* the detail answered to an exception of the given class.  HTTPException is
\* an Exception and is no ValidationError or ExportError, so the last clause
\* takes it.
ExportHandler(raised, has_str) ==
    CASE raised = "ValidationError" ->
           [status |-> 400,
            detail |-> <<"Validation error: ", "Cannot export empty job list">>]
      [] raised = "ExportError" ->
           [status |-> 500, detail |-> <<"Export failed: ", "No jobs to export">>]
      [] raised = "HTTPException" ->
           [status |-> 500,
            detail |-> <<"Unexpected error during export: ">>
                       \o StrOfHTTPException("404: ", ExportNotFoundDetail, has_str)]
      [] OTHER -> [status |-> 200, detail |-> <<>>]

\* GET export/{search_id}
export_search_results(search_id) ==
    \E has_str \in BOOLEAN :
        LET entry == get_returns(search_id)
            answer == ExportHandler(ExportRaises(entry), has_str)
        IN  /\ cache' = get_cache_after(search_id)
            /\ last' = Outcome("export", search_id, entry # NoEntry, entry,
                               ExpiredBefore(search_id), answer.status, answer.detail)
            /\ UNCHANGED <<now, cleanup_task, sweep_due>>

\* The except clause of get_export_info: every Exception, the HTTPException(404)
\* of line 123 included, is answered with status 500.
InfoHandler(raised, has_str) ==
    IF raised = "HTTPException"
    THEN [status |-> 500,
          detail |-> <<"Error retrieving export info: ">>
                     \o StrOfHTTPException("404: ", InfoNotFoundDetail, has_str)]
    ELSE [status |-> 200, detail |-> <<>>]

\* GET export/{search_id}/info
get_export_info(search_id) ==
    \E has_str \in BOOLEAN :
        LET entry == get_returns(search_id)
            answer == InfoHandler(IF entry = NoEntry THEN "HTTPException" ELSE "none",
                                  has_str)
        IN  /\ cache' = get_cache_after(search_id)
            /\ last' = Outcome("export_info", search_id, entry # NoEntry, entry,
                               ExpiredBefore(search_id), answer.status, answer.detail)
            /\ UNCHANGED <<now, cleanup_task, sweep_due>>

----------------------------------------------------------------------------
\* Search models (app/models/search.py)

\* The job boards SearchRequest.validate_site_names accepts (those the model uses).
valid_sites == {"indeed", "zip_recruiter"}
\* A name it rejects.
UnsupportedSite == "monster"

RECURSIVE SeqsUpTo(_, _)
\* The sequences over S of length at most n.
SeqsUpTo(S, n) ==
    IF n = 0 THEN {<<>>}
    ELSE LET shorter == SeqsUpTo(S, n - 1)
         IN  shorter \cup {Append(q, x) : q \in {r \in shorter : Len(r) = n - 1}, x \in S}

\* The site_names lists of the request bodies.
SiteNameLists ==
    {<<>>, <<UnsupportedSite>>, <<"indeed">>, <<"zip_recruiter">>,
     <<"indeed", "zip_recruiter">>, <<"zip_recruiter", "zip_recruiter">>}

\* The request bodies a client posts.
\* The fields they leave out have their defaults.  Numbers and booleans are
\* held as their texts.
RawBodies ==
    [search_term : {NULL, "", "python"},
     location : {NULL, "Remote"},
     site_names : SiteNameLists,
     job_type : {NULL}, results_wanted : {"20"}, distance : {"50"},
     is_remote : {"False"}, hours_old : {NULL}]

\* SearchRequest(**body): the fields pydantic rejects (min_length = 1 of
\* search_term and of site_names, validate_site_names).
StructuralErrors(body) ==
    (IF body.search_term = "" THEN <<"search_term">> ELSE <<>>)
    \o (IF body.site_names = <<>>
           \/ \E i \in 1..Len(body.site_names) : body.site_names[i] \notin valid_sites
        THEN <<"site_names">> ELSE <<>>)

NoRequest ==
    [search_term |-> NULL, location |-> NULL, site_names |-> <<>>, job_type |-> NULL,
     results_wanted |-> "20", distance |-> "50", is_remote |-> "False",
     hours_old |-> NULL]

\* SearchMetadata, without its timestamp and duration.
SearchMetadata(search_id, total_sites_searched, successful_sites, failed_sites, total_results_found) ==
    [search_id |-> search_id, total_sites_searched |-> total_sites_searched,
     successful_sites |-> successful_sites, failed_sites |-> failed_sites,
     total_results_found |-> total_results_found]

\* JobSearchResponse, as constructed.
JobSearchResponse(jobs, total_results, search_metadata, errors, warnings) ==
    [jobs |-> jobs, total_results |-> total_results, search_metadata |-> search_metadata,
     errors |-> errors, warnings |-> warnings]

\* JobSearchResponse.validate_total_results: the constructor raises unless this holds.
validate_total_results(jobs, total_results) == Len(jobs) = total_results

NoResponse ==
    JobSearchResponse(<<>>, 0, SearchMetadata(ErrorSearchId, 0, <<>>, <<>>, 0), <<>>, <<>>)

----------------------------------------------------------------------------
\* The search orchestrator (app/services/job_search_service.py)

\* pd.notna(value)
NotNa(value) == value # NULL
\* str(value)
Str(value) == IF value = NULL THEN "None" ELSE value
\* float(text) succeeds
IsFloatText(text) == text \in {"100", "150"}
\* float(text), for such a text, as the text of the float
ParseFloat(text) ==
    CASE text = "100" -> "100.0"
      [] text = "150" -> "150.0"
      [] OTHER -> "nan"

\* text.split(', ')
SplitCommaSpace(text) ==
    CASE text = "San Francisco, CA" -> <<"San Francisco", "CA">>
      [] text = "San Francisco, CA, USA" -> <<"San Francisco", "CA", "USA">>
      [] OTHER -> <<text>>

\* The member of CompensationInterval whose value is the text, NULL for none.
CompensationIntervalOf(text) ==
    CASE text = "yearly" -> "YEARLY"
      [] text = "hourly" -> "HOURLY"
      [] OTHER -> NULL

\* The first member of JobType one of whose values is the text, as a list;
\* <<>> (None) when there is none.
JobTypeOf(text) ==
    CASE text = "fulltime" -> <<"FULL_TIME">>
      [] text = "parttime" -> <<"PART_TIME">>
      [] OTHER -> <<>>

\* A row of the frame scrape_jobs returns, reduced to the columns the model
\* reads: a column holds a text, or NULL for a missing value (None, NaN).
Row(site, location, min_amount, max_amount, interval, job_type, description) ==
    [id |-> 0, site |-> site, location |-> location, min_amount |-> min_amount,
     max_amount |-> max_amount, interval |-> interval, job_type |-> job_type,
     description |-> description]

\* The rows of the frames a search gets: the site and min_amount columns are
\* filled.  A min_amount is missing, a number, or a text that is no number
\* (one that names a job board, as an error text repeating it does).
RowValues ==
    {Row(site, NULL, min_amount, NULL, NULL, NULL, NULL) :
        site \in valid_sites, min_amount \in {NULL, "100", "indeed"}}
\* The id column holds the row's position.
WithIds(rows) == [i \in 1..Len(rows) |-> [rows[i] EXCEPT !.id = i]]
DataFrames == {WithIds(rows) : rows \in SeqsUpTo(RowValues, MaxRows)}

\* JobSearchService._map_search_parameters: the site names in JobSpy's
\* spelling, and the other entries of the dict that is left once the None
\* values are removed (site_name, a list, is never None).
MapSiteName(site) == IF site = "zip_recruiter" THEN "ziprecruiter" ELSE site
_map_keeps_none(search_request) ==
    [site_name |-> [i \in 1..Len(search_request.site_names) |->
                        MapSiteName(search_request.site_names[i])],
     entries |-> [k \in {"search_term", "location", "distance", "is_remote",
                         "job_type", "results_wanted", "hours_old", "country_indeed",
                         "description_format", "verbose"} |->
                    CASE k = "country_indeed" -> "usa"
                      [] k = "description_format" -> "markdown"
                      [] k = "verbose" -> "0"
                      [] OTHER -> search_request[k]]]
_map_search_parameters(search_request) ==
    LET params == [k \in {"search_term", "location", "distance", "is_remote",
                          "job_type", "results_wanted", "hours_old", "country_indeed",
                          "description_format", "verbose"} |->
                     CASE k = "country_indeed" -> "usa"
                       [] k = "description_format" -> "markdown"
                       [] k = "verbose" -> "0"
                       [] OTHER -> search_request[k]]
    IN  [site_name |-> [i \in 1..Len(search_request.site_names) |->
                            MapSiteName(search_request.site_names[i])],
         entries |-> [k \in {x \in DOMAIN params : params[x] # NULL} |-> params[k]]]

NoParams == [site_name |-> <<>>, entries |-> [k \in {} |-> NULL]]
NoJob == WebJobPost(0, NULL, ErrorSearchId, NoLocation, NoCompensation, <<>>, NULL)

\* JobSearchService._convert_row_to_webjobpost: the record, or the exception
\* float() raises for an amount that is no number.
\*   location_data      None unless the text has two parts or more
\*   bad_amounts        the amounts float() rejects, in the order it is applied
\*   compensation_data  built when any of the three columns is not missing
\*   job_type_list      None for a missing, empty or "None" text
_convert_row_to_webjobpost(row, search_id) ==
    LET location_parts == SplitCommaSpace(Str(row.location))
        location_data ==
            IF NotNa(row.location) /\ Len(location_parts) >= 2
            THEN Location(location_parts[1], location_parts[2],
                          IF Len(location_parts) > 2 THEN location_parts[3] ELSE "USA")
            ELSE NoLocation
        bad_amounts ==
            (IF NotNa(row.min_amount) /\ ~IsFloatText(row.min_amount)
                THEN <<row.min_amount>> ELSE <<>>)
            \o (IF NotNa(row.max_amount) /\ ~IsFloatText(row.max_amount)
                   THEN <<row.max_amount>> ELSE <<>>)
        compensation_data ==
            IF NotNa(row.min_amount) \/ NotNa(row.max_amount) \/ NotNa(row.interval)
            THEN Compensation(
                     IF NotNa(row.min_amount) THEN ParseFloat(row.min_amount) ELSE NULL,
                     IF NotNa(row.max_amount) THEN ParseFloat(row.max_amount) ELSE NULL,
                     IF NotNa(row.interval) THEN CompensationIntervalOf(Str(row.interval))
                                            ELSE NULL,
                     "USD")
            ELSE NoCompensation
        job_type_list ==
            IF NotNa(row.job_type) /\ Str(row.job_type) \notin {"", "None"}
            THEN JobTypeOf(Str(row.job_type))
            ELSE <<>>
    IN  IF bad_amounts # <<>>
        THEN [ok |-> FALSE, job |-> NoJob,
              error |-> <<"could not convert string to float: ", bad_amounts[1]>>]
        ELSE [ok |-> TRUE,
              job |-> WebJobPost(row.id, Str(row.site), search_id, location_data,
                                 compensation_data, job_type_list,
                                 IF NotNa(row.description) THEN Str(row.description)
                                                           ELSE NULL),
              error |-> <<>>]

\* The loop of _process_search_results over the rows from the i-th on.
RECURSIVE ProcessRows(_, _, _, _)
ProcessRowsAborting(df_result, search_id, i, acc) ==
    IF i > Len(df_result) THEN acc
    ELSE LET r == _convert_row_to_webjobpost(df_result[i], search_id)
         IN  IF r.ok
             THEN ProcessRows(df_result, search_id, i + 1,
                              [acc EXCEPT !.jobs = Append(@, r.job)])
             ELSE [acc EXCEPT !.errors =
                       Append(@, <<"Failed to process job: ">> \o r.error)]
ProcessRows(df_result, search_id, i, acc) ==
    IF i > Len(df_result) THEN acc
    ELSE LET r == _convert_row_to_webjobpost(df_result[i], search_id)
         IN  ProcessRows(df_result, search_id, i + 1,
                 IF r.ok
                 THEN [acc EXCEPT !.jobs = Append(@, r.job)]
                 ELSE [acc EXCEPT !.errors =
                           Append(@, <<"Failed to process job: ">> \o r.error)])

\* _process_search_results, reporting an empty frame as an error
_process_empty_is_error(df_result, search_id) ==
    IF df_result = <<>>
    THEN [jobs |-> <<>>, warnings |-> <<>>,
          errors |-> << <<"No jobs found", " matching the search criteria">> >>]
    ELSE ProcessRows(df_result, search_id, 1,
                     [jobs |-> <<>>, errors |-> <<>>, warnings |-> <<>>])

\* JobSearchService._process_search_results
_process_search_results(df_result, search_id) ==
    IF df_result = <<>>
    THEN [jobs |-> <<>>, errors |-> <<>>,
          warnings |-> << <<"No jobs found", " matching the search criteria">> >>]
    ELSE ProcessRows(df_result, search_id, 1,
                     [jobs |-> <<>>, errors |-> <<>>, warnings |-> <<>>])

\* site.lower() in error.lower(): the texts of the model name a site only as a
\* whole fragment.
Lower(fragment) == IF fragment = "Indeed" THEN "indeed" ELSE fragment
MentionsSameCase(site, error) == \E i \in 1..Len(error) : error[i] = site
Mentions(site, error) == \E i \in 1..Len(error) : Lower(error[i]) = Lower(site)

\* The two loops that fill failed_sites in _create_search_metadata.
RECURSIVE FailedSites(_, _, _, _)
FailedSites(errors, site_names, e, s) ==
    IF e > Len(errors) THEN <<>>
    ELSE IF s > Len(site_names) THEN FailedSites(errors, site_names, e + 1, 1)
    ELSE (IF Mentions(site_names[s], errors[e]) THEN <<site_names[s]>> ELSE <<>>)
         \o FailedSites(errors, site_names, e, s + 1)

InSeq(x, q) == \E i \in 1..Len(q) : q[i] = x

\* JobSearchService._create_search_metadata
_create_search_metadata(search_id, site_names, total_results, errors) ==
    LET failed_sites == FailedSites(errors, site_names, 1, 1)
        successful_sites == SelectSeq(site_names, LAMBDA site : ~InSeq(site, failed_sites))
    IN  SearchMetadata(search_id, Len(site_names), successful_sites, failed_sites,
                       total_results)

\* What search_jobs returned or raised.
Returned(response) == [result |-> "returned", response |-> response, exc |-> NoExc]
Raised(exc) == [result |-> "raised", response |-> NoResponse, exc |-> exc]
NotCalled == [result |-> "none", response |-> NoResponse, exc |-> NoExc]

\* The last except clause of search_jobs: any Exception becomes a JobSearchError.
WrapUnexpected(text) ==
    Raised(JobSearchError(<<"Unexpected error during job search: ">> \o text,
                          "SEARCH_ERROR"))

\* search_jobs from the return of the external call on (lines 81-103).
\* (first variant: a second identifier is generated for the records)
search_jobs_second_id(search_id, search_request, df_result) ==
    LET processed == _process_search_results(df_result, SearchIdOf(search_id.n + 1))
        metadata == _create_search_metadata(search_id, search_request.site_names,
                                            Len(processed.jobs), processed.errors)
    IN  Returned(JobSearchResponse(processed.jobs, Len(processed.jobs), metadata,
                                   processed.errors, processed.warnings))
search_jobs_counts_rows(search_id, search_request, df_result) ==
    LET processed == _process_search_results(df_result, search_id)
        metadata == _create_search_metadata(search_id, search_request.site_names,
                                            Len(df_result), processed.errors)
    IN  IF validate_total_results(processed.jobs, Len(processed.jobs))
        THEN Returned(JobSearchResponse(processed.jobs, Len(processed.jobs), metadata,
                                        processed.errors, processed.warnings))
        ELSE WrapUnexpected(<<"total_results must match the number of jobs in the list">>)
search_jobs_completes(search_id, search_request, df_result) ==
    LET processed == _process_search_results(df_result, search_id)
        metadata == _create_search_metadata(search_id, search_request.site_names,
                                            Len(processed.jobs), processed.errors)
    IN  IF validate_total_results(processed.jobs, Len(processed.jobs))
        THEN Returned(JobSearchResponse(processed.jobs, Len(processed.jobs), metadata,
                                        processed.errors, processed.warnings))
        ELSE WrapUnexpected(<<"total_results must match the number of jobs in the list">>)

\* The exceptions scrape_jobs raises: one job board's own, one reporting a rate
\* limit, a connection failure, the builtin TimeoutError, and any other.
ExternalErrors == {"IndeedException", "RateLimited", "ConnectionError", "TimeoutError",
                   "Exception"}
ExternalErrorText(error) ==
    CASE error = "IndeedException" -> <<"Indeed", " returned a bad response">>
      [] error = "RateLimited" -> <<"429", " too many requests">>
      [] error = "ConnectionError" -> <<"connection", " refused">>
      [] error = "TimeoutError" -> <<"timed out">>
      [] OTHER -> <<"Unexpected error">>

\* search_jobs when the external call raises.  asyncio.TimeoutError is the
\* builtin TimeoutError from Python 3.11 on and a class of its own before.
search_jobs_fails(error, timeout_is_builtin) ==
    IF error = "TimeoutError" /\ timeout_is_builtin
    THEN Raised(SearchTimeoutError(<<"Search timed out after ", "{default_timeout}",
                                     " seconds">>, default_timeout))
    ELSE WrapUnexpected(ExternalErrorText(error))

\* search_jobs when asyncio.wait_for times out.
search_jobs_times_out_unset ==
    Raised(SearchTimeoutError(<<"Search timed out after ", "{default_timeout}",
                                " seconds">>, 0))
search_jobs_times_out ==
    Raised(SearchTimeoutError(<<"Search timed out after ", "{default_timeout}",
                                " seconds">>, default_timeout))

\* JobSearchService.validate_search_parameters: the exception raised, or NoExc.
\* A text is falsy when it is None or empty.
validate_names_one_field(search_request) ==
    IF search_request.search_term \in {NULL, ""} /\ search_request.location \in {NULL, ""}
    THEN ValidationError(<<"Either search term or location must be provided">>,
                         <<"search_term">>)
    ELSE NoExc
validate_search_parameters(search_request) ==
    IF search_request.search_term \in {NULL, ""} /\ search_request.location \in {NULL, ""}
    THEN ValidationError(<<"Either search term or location must be provided">>,
                         <<"search_term", "location">>)
    ELSE NoExc

----------------------------------------------------------------------------
\* The POST search handler (app/api/v1/endpoints/search.py)

\* An HTTP answer: the status, the "error" title of an HTTPException's detail
\* ("" for a normal response), the JobSearchResponse of a normal response, and
\* the attributes of the exception the detail repeats.
Answer(status, error, response, exc) ==
    [status |-> status, error |-> error, response |-> response,
     message |-> exc.message, field_errors |-> exc.field_errors, site |-> exc.site,
     retry_after |-> exc.retry_after, timeout_seconds |-> exc.timeout_seconds,
     error_code |-> exc.error_code]

NoAnswer == Answer(0, "", NoResponse, NoExc)

\* The answer to a normal return of search_jobs.
Success(response) == Answer(200, "", response, NoExc)

\* The JobSearchResponse the handler builds for a JobBoardError (lines 145-159).
DegradedResponse(e) ==
    JobSearchResponse(<<>>, 0,
        SearchMetadata(ErrorSearchId, 1, <<>>,
                       IF e.site \notin {NULL, ""} THEN <<e.site>> ELSE <<"unknown">>, 0),
        <<e.message>>, <<>>)

\* The except clauses of the handler, in their order.
ExceptClauses ==
    <<"ValidationError", "RateLimitError", "SearchTimeoutError", "NetworkError",
      "JobBoardError", "JobSearchError", "Exception">>

\* The first clause that takes an exception of the class.
ClauseFor(class) ==
    ExceptClauses[CHOOSE i \in 1..Len(ExceptClauses) :
                     /\ IsInstance(class, ExceptClauses[i])
                     /\ \A j \in 1..(i - 1) : ~IsInstance(class, ExceptClauses[j])]

\* The answer of the handler to an exception raised in its try body.
HandleBaseFirst(e) ==
    IF IsInstance(e.class, "JobSearchError")
    THEN Answer(500, "Job Search Error", NoResponse, e)
    ELSE Answer(500, "Internal Server Error", NoResponse, NoExc)
Handle(e) ==
    LET clause == ClauseFor(e.class)
    IN  CASE clause = "ValidationError" -> Answer(422, "Validation Error", NoResponse, e)
          [] clause = "RateLimitError" -> Answer(429, "Rate Limit Exceeded", NoResponse, e)
          [] clause = "SearchTimeoutError" -> Answer(408, "Search Timeout", NoResponse, e)
          [] clause = "NetworkError" -> Answer(503, "Network Error", NoResponse, e)
          [] clause = "JobBoardError" -> Answer(200, "", DegradedResponse(e), NoExc)
          [] clause = "JobSearchError" -> Answer(500, "Job Search Error", NoResponse, e)
          [] OTHER -> Answer(500, "Internal Server Error", NoResponse, NoExc)

\* The answer of the handler to what search_jobs returned or raised.
AnswerTo(outcome) ==
    IF outcome.result = "returned" THEN Success(outcome.response) ELSE Handle(outcome.exc)

\* The call of scrape_jobs: not made, running on a worker, returned a frame,
\* raised, or abandoned by a caller that timed out.
ExtCall(state, params, df_result, error) ==
    [state |-> state, params |-> params, df_result |-> df_result, error |-> error]
NoCall == ExtCall("none", NoParams, <<>>, "")

\* A body pydantic rejects never reaches the handler: FastAPI answers 422.
RejectMalformed ==
    /\ pc \in {"idle", "done"}
    /\ \E body \in RawBodies :
          /\ StructuralErrors(body) # <<>>
          /\ resp' = Answer(422, "Unprocessable Entity", NoResponse,
                            ValidationError(<<"value is not valid">>, StructuralErrors(body)))
    /\ req' = NoRequest
    /\ ext' = NoCall
    /\ svc' = NotCalled
    /\ pc' = "done"
    /\ UNCHANGED <<n_searches, cacheVars>>

\* A body that makes a SearchRequest enters the handler.
AcceptRequest ==
    /\ pc \in {"idle", "done"}
    /\ \E body \in RawBodies :
          /\ StructuralErrors(body) = <<>>
          /\ req' = body
    /\ resp' = NoAnswer
    /\ ext' = NoCall
    /\ svc' = NotCalled
    /\ pc' = "received"
    /\ UNCHANGED <<n_searches, cacheVars>>

\* await job_service.validate_search_parameters(search_request), lines 63-65,
\* and the except clause that answers its ValidationError.
Validate ==
    /\ pc = "received"
    /\ LET e == validate_search_parameters(req)
       IN  IF e = NoExc
           THEN pc' = "validated" /\ UNCHANGED resp
           ELSE pc' = "done" /\ resp' = Handle(e)
    /\ UNCHANGED <<req, n_searches, ext, svc, cacheVars>>

\* search_jobs up to its await (lines 62-79): a search identifier is made, the
\* parameters are mapped and the external call is handed to the worker pool.
Dispatch ==
    /\ pc = "validated"
    /\ n_searches < MaxSearches
    /\ n_searches' = n_searches + 1
    /\ ext' = ExtCall("running", _map_search_parameters(req), <<>>, "")
    /\ pc' = "awaiting"
    /\ UNCHANGED <<req, svc, resp, cacheVars>>

\* The external call returns a frame in time: search_jobs builds its response
\* and the handler returns it.
ExternalReturns ==
    /\ pc = "awaiting"
    /\ \E df_result \in DataFrames :
          LET outcome == search_jobs_completes(SearchIdOf(n_searches), req, df_result)
          IN  /\ ext' = [ext EXCEPT !.state = "returned", !.df_result = df_result]
              /\ svc' = outcome
              /\ resp' = AnswerTo(outcome)
    /\ pc' = "done"
    /\ UNCHANGED <<req, n_searches, cacheVars>>

\* The external call raises in time.
ExternalRaises ==
    /\ pc = "awaiting"
    /\ \E error \in ExternalErrors, timeout_is_builtin \in BOOLEAN :
          LET outcome == search_jobs_fails(error, timeout_is_builtin)
          IN  /\ ext' = [ext EXCEPT !.state = "raised", !.error = error]
              /\ svc' = outcome
              /\ resp' = AnswerTo(outcome)
    /\ pc' = "done"
    /\ UNCHANGED <<req, n_searches, cacheVars>>

\* The timeout of asyncio.wait_for elapses first: the wait ends, the call on
\* the worker is left running.
WaitTimesOut ==
    /\ pc = "awaiting"
    /\ ext' = [ext EXCEPT !.state = "abandoned"]
    /\ svc' = search_jobs_times_out
    /\ resp' = AnswerTo(search_jobs_times_out)
    /\ pc' = "done"
    /\ UNCHANGED <<req, n_searches, cacheVars>>

\* The side effects the endpoint tests give a patched JobSearchService.search_jobs
\* (tests/test_api/test_search_endpoint.py), and two more: a JobSearchError of
\* no subclass and an exception of another class.
PatchedSideEffects ==
    {RateLimitError(<<"Rate limit exceeded for LinkedIn">>, "linkedin", 300),
     SearchTimeoutError(<<"Search timed out after 60 seconds">>, 60),
     NetworkError(<<"Connection failed to job board">>),
     JobBoardError(<<"Glassdoor is temporarily unavailable">>, "glassdoor"),
     JobBoardError(<<"A job board is unavailable">>, ""),
     JobSearchError(<<"Job search failed">>, "JOBSPY_ERROR"),
     PlainException(<<"boom">>)}

\* The handler with search_jobs replaced by a double that raises.
PatchedSearchRaises ==
    /\ pc = "validated"
    /\ \E e \in PatchedSideEffects :
          /\ svc' = Raised(e)
          /\ resp' = AnswerTo(Raised(e))
    /\ ext' = NoCall
    /\ pc' = "done"
    /\ UNCHANGED <<req, n_searches, cacheVars>>

InitSearch ==
    /\ pc = "idle"
    /\ req = NoRequest
    /\ n_searches = 0
    /\ ext = NoCall
    /\ svc = NotCalled
    /\ resp = NoAnswer

NextSearch ==
    \/ RejectMalformed
    \/ AcceptRequest
    \/ Validate
    \/ Dispatch
    \/ ExternalReturns
    \/ ExternalRaises
    \/ WaitTimesOut
    \/ PatchedSearchRaises

----------------------------------------------------------------------------
InitCache ==
    /\ now = 0
    /\ cache = EmptyDict
    /\ cleanup_task = "none"
    /\ sweep_due = 0
    /\ last = NoOutcome

Store == \E k \in Keys, jobs \in Batches, m \in Metas : store_search_results(k, jobs, m)
Get == \E k \in Keys : get_search_results(k)
Remove == \E k \in Keys : remove_search_results(k)
Export == \E k \in Keys : export_search_results(k)
ExportInfo == \E k \in Keys : get_export_info(k)

NextCache ==
    \/ Store
    \/ Get
    \/ Remove
    \/ get_cache_stats
    \/ clear_cache
    \/ periodic_cleanup
    \/ Export
    \/ ExportInfo
    \/ Tick

----------------------------------------------------------------------------
\* The cache called by concurrent tasks

\* Two request tasks, and the task that runs _periodic_cleanup.
RequestTasks == {"request_1", "request_2"}
CleanupTask == "cleanup"

\* Where a task stands in a call of the cache, and the locals of the call.
\*   pc     "idle" (no call; the cleanup task: asleep), "waiting" (at the
\*          async with), "acquired", "read" (the statements of the section that
\*          read are done), "written" (those that write are done)
\*   keys   the keys the call has decided to delete
\*   entry  store: the entry made; get: the entry read
\*   found  get: the entry read is live
\*   count  sweep: len(expired_keys); stats: total_entries
\*   expired   stats: expired_entries
\*   error  a del statement has raised KeyError
TaskState(at, op, key, jobs) ==
    [pc |-> at, op |-> op, key |-> key, jobs |-> jobs, keys |-> {}, entry |-> NoEntry,
     found |-> FALSE, count |-> 0, expired |-> 0, error |-> FALSE]
IdleTask == TaskState("idle", "none", ErrorSearchId, <<>>)

InitLock ==
    /\ lock = NULL
    /\ tasks = [t \in RequestTasks \cup {CleanupTask} |-> IdleTask]
    /\ sweeps = 0

\* A request task calls a method of the cache and comes to its async with
\* (clear_cache and get_cache_stats take no key).
CallCache(t) ==
    /\ t \in RequestTasks
    /\ tasks[t].pc = "idle"
    /\ \E op \in {"store", "get", "remove", "clear", "stats"}, k \in Keys :
          tasks' = [tasks EXCEPT ![t] =
                       IF op \in {"clear", "stats"}
                       THEN TaskState("waiting", op, ErrorSearchId, <<>>)
                       ELSE TaskState("waiting", op, k, <<JobA>>)]
    /\ UNCHANGED <<cacheVars, lock, sweeps>>

\* The sleep of the cleanup task ends: it calls _cleanup_expired_entries.
WakeCleanup ==
    /\ cleanup_task = "sleeping"
    /\ now >= sweep_due
    /\ tasks[CleanupTask].pc = "idle"
    /\ tasks' = [tasks EXCEPT ![CleanupTask] =
                     TaskState("waiting", "sweep", ErrorSearchId, <<>>)]
    /\ UNCHANGED <<cacheVars, lock, sweeps>>

\* The cleanup task is cancelled: asyncio.sleep, or the wait for the lock,
\* raises CancelledError and the loop of _periodic_cleanup breaks.  (Inside the
\* section the task awaits nothing; a cancellation asked for then is delivered
\* at its next sleep.)
CancelCleanup ==
    /\ tasks[CleanupTask].pc \in {"idle", "waiting"}
    /\ cancel_cleanup_task
    /\ sweeps' = sweeps - 1
    /\ tasks' = [tasks EXCEPT ![CleanupTask] = IdleTask]
    /\ UNCHANGED lock

\* async with self._lock, entering without waiting for the lock to be free
AcquireUnguarded(t) ==
    /\ tasks[t].pc = "waiting"
    /\ lock' = t
    /\ tasks' = [tasks EXCEPT ![t].pc = "acquired"]
    /\ UNCHANGED <<cacheVars, sweeps>>

\* async with self._lock: the task enters once the lock is free.
Acquire(t) ==
    /\ tasks[t].pc = "waiting"
    /\ lock = NULL
    /\ lock' = t
    /\ tasks' = [tasks EXCEPT ![t].pc = "acquired"]
    /\ UNCHANGED <<cacheVars, sweeps>>

\* The statements of the section that read the map and the clock.
ReadMap(t) ==
    LET call == tasks[t]
        k == call.key
        present == k \in DOMAIN cache
    IN  /\ call.pc = "acquired"
        /\ tasks' = [tasks EXCEPT ![t] =
             [call EXCEPT
                !.pc = "read",
                !.entry = CASE call.op = "store" -> CacheEntry(call.jobs, now, "meta_1")
                            [] call.op = "get" /\ present -> cache[k]
                            [] OTHER -> NoEntry,
                !.found = call.op = "get" /\ present
                          /\ ~is_expired(cache[k], default_ttl_minutes, now),
                !.keys = CASE call.op = "get" /\ present
                                /\ is_expired(cache[k], default_ttl_minutes, now) -> {k}
                           [] call.op = "remove" /\ present -> {k}
                           [] call.op = "sweep" -> expired_keys(now)
                           [] OTHER -> {},
                !.count = CASE call.op = "sweep" -> Cardinality(expired_keys(now))
                            [] call.op = "stats" -> Cardinality(DOMAIN cache)
                            [] OTHER -> 0]]
        /\ UNCHANGED <<cacheVars, lock, sweeps>>

\* store_search_results starting a cleanup task whatever became of the last
store_always_starts == TRUE

\* self._cleanup_task is None or self._cleanup_task.done()
no_cleanup_task_running == cleanup_task \in {"none", "done"}

\* The statements of the section that write the map: the assignment of store
\* (which also starts the cleanup task), the del statements of get, remove and
\* the sweep (each raises KeyError for a key that is not in the map), clear();
\* stats counts the expired entries.
WriteMap(t) ==
    LET call == tasks[t]
    IN  /\ call.pc = "read"
        /\ cache' = CASE call.op = "store" -> DictSet(cache, call.key, call.entry)
                      [] call.op = "clear" -> EmptyDict
                      [] OTHER -> DictDel(cache, call.keys)
        /\ tasks' = [tasks EXCEPT ![t] =
             [call EXCEPT !.pc = "written",
                          !.error = ~(call.keys \subseteq DOMAIN cache),
                          !.expired = IF call.op = "stats"
                                      THEN Cardinality(expired_keys(now)) ELSE 0]]
        /\ IF call.op = "store" /\ no_cleanup_task_running
              THEN /\ cleanup_task' = "sleeping"
                   /\ sweep_due' = now + cleanup_interval_minutes
                   /\ sweeps' = sweeps + 1
              ELSE UNCHANGED <<cleanup_task, sweep_due, sweeps>>
        /\ UNCHANGED <<now, last, lock>>

\* The end of the async with: the lock is released and the call returns (the
\* cleanup task goes back to sleep).
Release(t) ==
    LET call == tasks[t]
    IN  /\ call.pc = "written"
        /\ lock' = NULL
        /\ tasks' = [tasks EXCEPT ![t] = IdleTask]
        /\ last' = Outcome(call.op, call.key,
                           CASE call.op = "get" -> call.found
                             [] call.op = "remove" -> call.keys # {}
                             [] OTHER -> TRUE,
                           IF call.op = "store" \/ call.found THEN call.entry ELSE NoEntry,
                           IF call.op = "stats" THEN call.expired ELSE call.count,
                           0, IF call.error THEN <<"KeyError">> ELSE <<>>)
        /\ IF t = CleanupTask
              THEN sweep_due' = now + cleanup_interval_minutes
              ELSE UNCHANGED sweep_due
        /\ UNCHANGED <<now, cache, cleanup_task, sweeps>>

\* Time passes while tasks wait or hold the lock: here by more than a TTL, so
\* that what is stored expires.
TickPastTtl ==
    /\ now + default_ttl_minutes + 1 <= MaxTime
    /\ now' = now + default_ttl_minutes + 1
    /\ UNCHANGED <<cache, cleanup_task, sweep_due, last, lockVars>>

NextLock ==
    \/ \E t \in RequestTasks : CallCache(t)
    \/ WakeCleanup
    \/ CancelCleanup
    \/ \E t \in RequestTasks \cup {CleanupTask} : Acquire(t)
    \/ \E t \in RequestTasks \cup {CleanupTask} : ReadMap(t)
    \/ \E t \in RequestTasks \cup {CleanupTask} : WriteMap(t)
    \/ \E t \in RequestTasks \cup {CleanupTask} : Release(t)
    \/ TickPastTtl

----------------------------------------------------------------------------
\* search_jobs invoked concurrently, and the worker pools

\* A JobSearchService: the one a caller made and invokes several times, or the
\* one get_job_search_service makes for the n-th request.  Each holds its own
\* ThreadPoolExecutor.
TheService == [made_by |-> "caller", n |-> 0]
ServiceOfRequest(n) == [made_by |-> "get_job_search_service", n |-> n]
NoService == [made_by |-> "none", n |-> 0]

\* An invocation of search_jobs.
\*   service   the JobSearchService it runs on
\*   at        "none", then "received", "parameter_mapped", "dispatched",
\*             "awaiting_result", and last "completed", "timed_out" or "failed"
\*   work      its call of _execute_jobspy_search in the executor: "none",
\*             "queued", "running" (on a worker), "ended" (it returned or
\*             raised), or "cancelled" (taken back before a worker began it)
SearchCall(service, at, work) == [service |-> service, at |-> at, work |-> work]

CallIds == 1..MaxCalls

InitPool == calls = [r \in CallIds |-> SearchCall(NoService, "none", "none")]

\* The workers of a service's pool that are running a call.
Busy(service) == {r \in CallIds : calls[r].service = service /\ calls[r].work = "running"}

\* The event loop runs one coroutine at a time: the statements of search_jobs
\* before its await (lines 62-79) run with no other invocation in between.
\* Invocations are numbered in the order they begin.
MayBegin(r) ==
    /\ calls[r].at = "none"
    /\ IF r = 1 THEN TRUE ELSE calls[r - 1].at # "none"
    /\ \A q \in CallIds : calls[q].at \notin {"received", "parameter_mapped", "dispatched"}

\* POST search: Depends(get_job_search_service) makes a JobSearchService for
\* the request, and the handler invokes its search_jobs.
PostSearch(r) ==
    /\ MayBegin(r)
    /\ calls' = [calls EXCEPT ![r] = SearchCall(ServiceOfRequest(r), "received", "none")]

\* search_jobs invoked on the service a caller holds.
CallSearchJobs(r) ==
    /\ MayBegin(r)
    /\ calls' = [calls EXCEPT ![r] = SearchCall(TheService, "received", "none")]

\* jobspy_params = self._map_search_parameters(search_request)
MapParams(r) ==
    /\ calls[r].at = "received"
    /\ calls' = [calls EXCEPT ![r].at = "parameter_mapped"]

\* loop.run_in_executor(self._executor, ...): the call goes to a free worker
\* of the service's pool, or waits in the executor's queue when the
\* max_workers workers are all busy.
RunInExecutor(r) ==
    /\ calls[r].at = "parameter_mapped"
    /\ calls' = [calls EXCEPT
                    ![r].at = "dispatched",
                    ![r].work = IF Cardinality(Busy(calls[r].service)) < max_workers
                                THEN "running" ELSE "queued"]

\* await asyncio.wait_for(..., timeout = self.default_timeout)
AwaitResult(r) ==
    /\ calls[r].at = "dispatched"
    /\ calls' = [calls EXCEPT ![r].at = "awaiting_result"]

\* The call of scrape_jobs on a worker returns a frame or raises.  Its worker
\* takes the next call from the queue of its executor; an invocation still
\* awaiting the result goes on to its end (lines 81-103, or line 111).  The
\* result reaches the event loop only once the coroutine awaits.
WorkerReturns(r) ==
    LET waiting == {q \in CallIds : /\ calls[q].service = calls[r].service
                                    /\ calls[q].work = "queued"}
        next == IF waiting = {} THEN r
                ELSE CHOOSE q \in waiting : \A p \in waiting : q <= p
    IN  /\ calls[r].work = "running"
        /\ calls[r].at # "dispatched"
        /\ \E raises \in BOOLEAN :
              calls' = [q \in CallIds |->
                  IF q = r
                  THEN SearchCall(calls[r].service,
                                  IF calls[r].at # "awaiting_result" THEN calls[r].at
                                  ELSE IF raises THEN "failed" ELSE "completed",
                                  "ended")
                  ELSE IF q = next THEN [calls[q] EXCEPT !.work = "running"]
                  ELSE calls[q]]

\* wait_for times out, and its cancellation stops the call on the worker too
WaitForTimesOutAndStops(r) ==
    /\ calls[r].at = "awaiting_result"
    /\ calls' = [calls EXCEPT ![r].at = "timed_out", ![r].work = "cancelled"]

\* wait_for times out, but only once the call has a worker
WaitForTimesOutOnceRunning(r) ==
    /\ calls[r].at = "awaiting_result"
    /\ calls[r].work = "running"
    /\ calls' = [calls EXCEPT ![r].at = "timed_out"]

\* The timeout of wait_for elapses: search_jobs raises SearchTimeoutError
\* (line 106).  wait_for cancels the future: a call still in the queue is
\* taken back, a call that runs on a worker runs on.
WaitForTimesOut(r) ==
    /\ calls[r].at = "awaiting_result"
    /\ calls' = [calls EXCEPT
                    ![r].at = "timed_out",
                    ![r].work = IF calls[r].work = "queued" THEN "cancelled"
                                ELSE calls[r].work]

\* The steps of an invocation once it has begun.
SearchSteps ==
    \/ \E r \in CallIds : MapParams(r)
    \/ \E r \in CallIds : RunInExecutor(r)
    \/ \E r \in CallIds : AwaitResult(r)
    \/ \E r \in CallIds : WorkerReturns(r)
    \/ \E r \in CallIds : WaitForTimesOut(r)

\* The application as it is wired: every search is a POST search.
NextEndpoint ==
    \/ \E r \in CallIds : PostSearch(r)
    \/ SearchSteps

\* One JobSearchService invoked by concurrent callers.
NextService ==
    \/ \E r \in CallIds : CallSearchJobs(r)
    \/ SearchSteps

PoolOthers == UNCHANGED <<cacheVars, searchVars, serviceVars, lockVars>>

----------------------------------------------------------------------------
\* The services called on their own

\* The batches the export service is called with.
ExportBatches == SeqsUpTo({JobA, JobB}, MaxRows)

\* A call of the export service: the method, its arguments, its outcome.
ExportCall(op, jobs, include_description, include_company_details, outcome) ==
    [op |-> op, jobs |-> jobs, include_description |-> include_description,
     include_company_details |-> include_company_details, outcome |-> outcome]

\* No service has been called.
InitServices ==
    /\ exported = ExportCall("none", <<>>, TRUE, TRUE,
                             ExportReturned(NoFrame, NoExportMetadata))
    /\ normalized = [called |-> FALSE,
                     row |-> Row(NULL, NULL, NULL, NULL, NULL, NULL, NULL),
                     outcome |-> [ok |-> FALSE, job |-> NoJob, error |-> <<>>]]
    /\ mapped = [called |-> FALSE, request |-> NoRequest, params |-> NoParams]
    /\ classified = [called |-> FALSE, site_names |-> <<>>, errors |-> <<>>,
                     metadata |-> NoResponse.search_metadata]

\* await export_service.export_jobs_to_csv(jobs, search_id, ...)
ExportJobsToCsv ==
    /\ \E jobs \in ExportBatches, search_id \in Keys,
          filename \in {NULL, "", "jobs", "jobs.csv"},
          include_description \in BOOLEAN, include_company_details \in BOOLEAN :
          exported' = ExportCall("export_jobs_to_csv", jobs, include_description,
                                 include_company_details,
                                 export_jobs_to_csv(jobs, search_id, include_description,
                                                    include_company_details, filename))
    /\ UNCHANGED <<normalized, mapped, classified>>

\* export_service.validate_export_request(jobs, format)
ValidateExportRequest ==
    /\ \E jobs \in ExportBatches, export_format \in ExportFormat :
          exported' = ExportCall("validate_export_request", jobs, TRUE, TRUE,
                                 validate_export_request(jobs, export_format))
    /\ UNCHANGED <<normalized, mapped, classified>>

NextExport ==
    \/ ExportJobsToCsv
    \/ ValidateExportRequest

\* The rows the row normalizer is called with: each column missing, holding
\* the text "None", or holding a value.
NormalizerRows ==
    {Row(site, location, min_amount, max_amount, interval, job_type, description) :
        site \in valid_sites,
        location \in {NULL, "None", "Remote", "San Francisco, CA"},
        min_amount \in {NULL, "None", "100"},
        max_amount \in {NULL, "None", "150"},
        interval \in {NULL, "None", "yearly"},
        job_type \in {NULL, "None", "fulltime"},
        description \in {NULL, "We are hiring"}}

\* self._convert_row_to_webjobpost(row, search_id)
ConvertRow ==
    /\ \E row \in NormalizerRows, search_id \in Keys :
          normalized' = [called |-> TRUE, row |-> row,
                         outcome |-> _convert_row_to_webjobpost(row, search_id)]
    /\ UNCHANGED <<exported, mapped, classified>>

\* The requests the parameter mapping is called with: every optional field
\* left unset or set.
MappingRequests ==
    [search_term : {NULL, "python"}, location : {NULL, "Remote"},
     site_names : {q \in SiteNameLists : q # <<>> /\ \A i \in 1..Len(q) : q[i] \in valid_sites},
     job_type : {NULL, "fulltime"}, results_wanted : {"20"}, distance : {NULL, "50"},
     is_remote : {"False", "True"}, hours_old : {NULL, "24"}]

\* self._map_search_parameters(search_request)
MapParameters ==
    /\ \E search_request \in MappingRequests :
          mapped' = [called |-> TRUE, request |-> search_request,
                     params |-> _map_search_parameters(search_request)]
    /\ UNCHANGED <<exported, normalized, classified>>

\* The error messages the metadata is made from: they name a site in lower
\* case, name it capitalised, or name none.
MetadataErrors ==
    SeqsUpTo({<<"Failed to process job: ", "indeed", " gave no title">>,
              <<"Indeed", " returned a bad response">>,
              <<"zip_recruiter", " blocked the request">>,
              <<"Failed to process job: ", "1 validation error">>}, MaxErrors)

\* self._create_search_metadata(search_id, ..., site_names, total_results, errors)
CreateSearchMetadata ==
    /\ \E search_id \in Keys, errors \in MetadataErrors,
          site_names \in {q \in SiteNameLists : q # <<>> /\ \A i \in 1..Len(q) : q[i] \in valid_sites}
                         \cup {<<"zip_recruiter", "indeed">>} :
          classified' = [called |-> TRUE, site_names |-> site_names, errors |-> errors,
                         metadata |-> _create_search_metadata(search_id, site_names, 0, errors)]
    /\ UNCHANGED <<exported, normalized, mapped>>

Init == InitCache /\ InitSearch /\ InitServices /\ InitLock /\ InitPool

\* The cache and its readers.
SpecCache == Init /\ [][NextCache /\ UNCHANGED <<searchVars, serviceVars, lockVars, poolVars>>]_vars

\* The cleanup task from its start by a store to its end, with what the event
\* loop guarantees: time passes, a task whose sleep is over runs, and the
\* rounds of the loop do not fail for ever.
NextSweep ==
    \/ Store
    \/ Tick
    \/ SleepEndsAtHorizon
    \/ periodic_cleanup
    \/ periodic_cleanup_fails
    \/ cancel_cleanup_task
    \/ lifespan_shutdown

SweepOthers == UNCHANGED <<searchVars, serviceVars, lockVars, poolVars>>

SpecSweep ==
    /\ Init
    /\ [][NextSweep /\ SweepOthers]_vars
    /\ WF_vars((Tick \/ SleepEndsAtHorizon) /\ SweepOthers)
    /\ WF_vars((periodic_cleanup \/ periodic_cleanup_fails) /\ SweepOthers)
    /\ SF_vars(periodic_cleanup /\ SweepOthers)

\* search_jobs invoked concurrently, with what the event loop guarantees: a
\* coroutine that can run does, and a timeout that is due fires.  Nothing makes
\* a worker return.
SpecService ==
    /\ Init
    /\ [][NextService /\ PoolOthers]_vars
    /\ WF_vars((\E r \in CallIds : MapParams(r) \/ RunInExecutor(r) \/ AwaitResult(r))
               /\ PoolOthers)
    /\ \A r \in CallIds : WF_vars(WaitForTimesOut(r) /\ PoolOthers)

\* POST search requests handled concurrently.
SpecEndpoint == Init /\ [][NextEndpoint /\ PoolOthers]_vars

\* The cache under concurrent calls.
SpecLock == Init /\ [][NextLock /\ UNCHANGED <<searchVars, serviceVars, poolVars>>]_vars

\* The row normalizer.
SpecNormalizer == Init /\ [][ConvertRow /\ UNCHANGED <<cacheVars, searchVars, lockVars, poolVars>>]_vars

\* The parameter mapping.
SpecMapping == Init /\ [][MapParameters /\ UNCHANGED <<cacheVars, searchVars, lockVars, poolVars>>]_vars

\* The search metadata.
SpecMetadata == Init /\ [][CreateSearchMetadata /\ UNCHANGED <<cacheVars, searchVars, lockVars, poolVars>>]_vars

\* The export service.
SpecExport == Init /\ [][NextExport /\ UNCHANGED <<cacheVars, searchVars, lockVars, poolVars>>]_vars

\* The application as it is wired: POST search, the two export endpoints (the
\* only users of the cache in the application).
Next ==
    \/ (NextSearch /\ UNCHANGED <<serviceVars, lockVars, poolVars>>)
    \/ (Export /\ UNCHANGED <<searchVars, serviceVars, lockVars, poolVars>>)
    \/ (ExportInfo /\ UNCHANGED <<searchVars, serviceVars, lockVars, poolVars>>)

Spec == Init /\ [][Next]_vars

\* POST search alone.
SpecSearch == Init /\ [][NextSearch /\ UNCHANGED <<serviceVars, lockVars, poolVars>>]_vars

----------------------------------------------------------------------------
\* Properties

\* The search identifier of the search in progress or just ended.
CurrentSearchId == SearchIdOf(n_searches)

\* C1: once a POST search has completed with search identifier S, the cache
\* holds an entry under S with the batch of that search.
C1_CompletedSearchIsCached ==
    (pc = "done" /\ svc.result = "returned" /\ resp.status = 200)
        => /\ CurrentSearchId \in DOMAIN cache
           /\ cache[CurrentSearchId].jobs = resp.response.jobs

\* A step of get_search_results(k).
GetStep(k) == last'.op = "get" /\ last'.key = k /\ last'.at = now /\ now' = now

\* C2: get_search_results returns the entry stored under the key while the TTL
\* has not elapsed (now <= stored time + TTL), returns None once it has
\* (now > stored time + TTL) whether or not a sweep has run, returns None for a
\* key with no entry, and never returns an expired entry.
C2_GetHonoursTtl ==
    [][\A k \in Keys : GetStep(k) =>
         /\ (k \in DOMAIN cache /\ now <= cache[k].timestamp + default_ttl_minutes)
               => (last'.found /\ last'.entry = cache[k])
         /\ (k \in DOMAIN cache /\ now > cache[k].timestamp + default_ttl_minutes)
               => (~last'.found /\ last'.entry = NoEntry)
         /\ k \notin DOMAIN cache => (~last'.found /\ last'.entry = NoEntry)
         /\ last'.found => now <= last'.entry.timestamp + default_ttl_minutes]_vars

\* A get has just answered None for an entry that had expired, and deleted it,
\* while the cleanup task started by the first store has never swept.
C2_Witness ==
    /\ last.op = "get" /\ ~last.found /\ last.count = 1 /\ last.at = now
    /\ last.key \notin DOMAIN cache
    /\ cleanup_task = "sleeping" /\ sweep_due = cleanup_interval_minutes

\* C3: both export endpoints answer 404, with a detail containing "Search
\* results not found", when the cache has no live entry for the identifier.
C3_MissingEntryIs404 ==
    (last.op \in {"export", "export_info"} /\ ~last.found)
        => (last.status = 404 /\ Contains(last.detail, "Search results not found"))

\* C4: when the external call fails with an error of one job board, the client
\* gets a 200 response with no jobs, total_results = 0, the failure in errors
\* and the failing board in failed_sites.
C4_SourceFailureDegrades ==
    (pc = "done" /\ ext.state = "raised" /\ ext.error = "IndeedException")
        => /\ resp.status = 200
           /\ resp.response.jobs = <<>>
           /\ resp.response.total_results = 0
           /\ resp.response.errors # <<>>
           /\ InSeq("indeed", resp.response.search_metadata.failed_sites)

\* C5: in every JobSearchResponse, of the orchestrator or of the handler,
\* total_results is the length of jobs; in the orchestrator's, so is
\* search_metadata.total_results_found.
C5_TotalIsLength ==
    /\ resp.status = 200 => resp.response.total_results = Len(resp.response.jobs)
    /\ svc.result = "returned"
          => /\ svc.response.total_results = Len(svc.response.jobs)
             /\ svc.response.search_metadata.total_results_found = Len(svc.response.jobs)

\* A search has completed with some rows normalized and some failed.
C5_Witness ==
    /\ pc = "done" /\ svc.result = "returned" /\ resp.status = 200
    /\ Len(resp.response.jobs) >= 1
    /\ Len(resp.response.jobs) < Len(ext.df_result)

\* A row normalizes: its min_amount is missing or a number.
Normalizes(row) == row.min_amount = NULL \/ IsFloatText(row.min_amount)

\* C6: of the N >= 1 rows returned, each one that normalizes gives one record,
\* in row order, each other one gives one error message and no record, and
\* the search completes with a response however many rows fail.
C6_RowsAreIndependent ==
    (pc = "done" /\ ext.state = "returned" /\ ext.df_result # <<>>)
        => LET good == SelectSeq(ext.df_result, Normalizes)
               jobs == svc.response.jobs
           IN  /\ svc.result = "returned"
               /\ resp.status = 200
               /\ resp.response = svc.response
               /\ Len(jobs) = Len(good)
               /\ \A i \in 1..Len(jobs) : jobs[i].id = good[i].id
               /\ Len(svc.response.errors) = Len(ext.df_result) - Len(good)
               /\ Len(jobs) + Len(svc.response.errors) = Len(ext.df_result)

\* Every one of MaxRows rows failed, and the search completed all the same.
C6_Witness ==
    /\ pc = "done" /\ ext.state = "returned" /\ resp.status = 200
    /\ Len(ext.df_result) >= 2
    /\ resp.response.jobs = <<>>
    /\ Len(resp.response.errors) = Len(ext.df_result)

\* C7: when the timeout elapses before the external call has produced a result,
\* search_jobs raises SearchTimeoutError with timeout_seconds = default_timeout
\* and returns no response.
C7_TimeoutRaises ==
    (pc = "done" /\ ext.state = "abandoned")
        => /\ svc.result = "raised"
           /\ svc.exc.class = "SearchTimeoutError"
           /\ svc.exc.timeout_seconds = default_timeout
           /\ svc.response = NoResponse
           /\ resp.response = NoResponse

\* The wait has timed out with the external call still running.
C7_Witness ==
    pc = "done" /\ ext.state = "abandoned" /\ svc.exc.class = "SearchTimeoutError"

\* The request in progress has neither a search term nor a location.
NoTermNoLocation == req # NoRequest /\ req.search_term = NULL /\ req.location = NULL

\* C8: a request with neither a search term nor a location is constructed, is
\* rejected by validate_search_parameters with a ValidationError naming
\* search_term and location, and the external source is never called for it.
C8_CrossFieldRule ==
    NoTermNoLocation
        => /\ pc \in {"received", "done"}
           /\ ext = NoCall
           /\ svc = NotCalled
           /\ pc = "done" => /\ resp.status = 422
                             /\ resp.error = "Validation Error"
                             /\ resp.error_code = "VALIDATION_ERROR"
                             /\ resp.field_errors = <<"search_term", "location">>

\* Such a request has been rejected.
C8_Witness == NoTermNoLocation /\ pc = "done" /\ resp.status = 422

\* A failure was raised in the handler's try body: by validation (search_jobs
\* was not called) or by search_jobs.
ValidationFailed == pc = "done" /\ req # NoRequest /\ svc = NotCalled
SearchFailed == pc = "done" /\ svc.result = "raised"

\* C9: every failure raised by validation or by the search gets the answer of
\* its most specific class, and none gets a 200 without a recorded error.
C9_EveryFailureIsMapped ==
    /\ ValidationFailed
          => /\ resp.status = 422 /\ resp.error = "Validation Error"
             /\ resp.field_errors # <<>>
    /\ SearchFailed
          => LET e == svc.exc
             IN  /\ e.class = "RateLimitError"
                    => resp.status = 429 /\ resp.retry_after = e.retry_after
                 /\ e.class = "SearchTimeoutError"
                    => resp.status = 408 /\ resp.timeout_seconds = e.timeout_seconds
                 /\ e.class = "NetworkError" => resp.status = 503
                 /\ e.class = "JobBoardError"
                    => /\ resp.status = 200
                       /\ resp.response.jobs = <<>>
                       /\ resp.response.errors = <<e.message>>
                       /\ resp.response.search_metadata.failed_sites # <<>>
                 /\ e.class = "JobSearchError"
                    => resp.status = 500 /\ resp.error_code = e.error_code
                 /\ e.class = "Exception"
                    => resp.status = 500 /\ resp.error = "Internal Server Error"
                 /\ e.class \in JobSearchErrorSubclasses
                                \cup {"JobSearchError", "Exception"}
    /\ (ValidationFailed \/ SearchFailed) /\ resp.status = 200
          => resp.response.errors # <<>>

\* A JobBoardError has been answered with the degraded 200 response.
C9_Witness ==
    /\ SearchFailed /\ svc.exc.class = "JobBoardError"
    /\ resp.status = 200 /\ resp.response.errors = <<svc.exc.message>>

\* A step of store_search_results(k, ...).
StoreStep(k) == last'.op = "store" /\ last'.key = k /\ last'.at = now /\ now' = now

\* C10: store_search_results puts the records and metadata it is given under
\* the key, whatever was there, stamped with the current time; a get that
\* follows returns them; the other keys keep what they had.
C10_StoreOverwrites ==
    [][\A k \in Keys : StoreStep(k) =>
         /\ k \in DOMAIN cache'
         /\ cache'[k].jobs = last'.entry.jobs
         /\ cache'[k].search_metadata = last'.entry.search_metadata
         /\ cache'[k].timestamp = now
         /\ get_returns(k)' = last'.entry
         /\ \A j \in Keys \ {k} :
               /\ j \in DOMAIN cache' <=> j \in DOMAIN cache
               /\ j \in DOMAIN cache => cache'[j] = cache[j]]_vars

\* A store has just replaced an entry that had expired and was not yet swept,
\* next to an entry under another key.
C10_Witness ==
    /\ last.op = "store" /\ last.found /\ last.count = 1 /\ last.at = now
    /\ cache[last.key] = last.entry
    /\ Cardinality(DOMAIN cache) = 2

\* A step of remove_search_results(k).
RemoveStep(k) == last'.op = "remove" /\ last'.key = k /\ last'.at = now /\ now' = now

\* C11: remove_search_results returns true exactly when the key holds an entry
\* at the call (live or expired), deletes it and leaves the other keys as they
\* were; a get that follows returns None; the first remove after a store of the
\* key returns true and a remove right after a remove of the key returns false.
C11_RemoveReportsPresence ==
    [][\A k \in Keys : RemoveStep(k) =>
         /\ last'.found <=> k \in DOMAIN cache
         /\ k \notin DOMAIN cache'
         /\ get_returns(k)' = NoEntry
         /\ \A j \in Keys \ {k} :
               /\ j \in DOMAIN cache' <=> j \in DOMAIN cache
               /\ j \in DOMAIN cache => cache'[j] = cache[j]
         /\ (last.op = "store" /\ last.key = k) => last'.found
         /\ (last.op = "remove" /\ last.key = k) => ~last'.found]_vars

\* A remove has just deleted an entry that had expired and was not yet swept,
\* and left the entry under the other key.
C11_Witness ==
    /\ last.op = "remove" /\ last.found /\ last.at = now
    /\ now > default_ttl_minutes
    /\ cleanup_task = "sleeping" /\ sweep_due = cleanup_interval_minutes
    /\ DOMAIN cache = Keys \ {last.key}
    /\ \A j \in DOMAIN cache : cache[j].timestamp = 0

\* C12: for an empty batch export_jobs_to_csv raises ExportError ("No jobs to
\* export") and validate_export_request raises ValidationError; neither gives
\* a file or an ExportMetadata.
C12_EmptyBatchNeverExports ==
    (exported.op # "none" /\ exported.jobs = <<>>)
        => /\ exported.outcome.result = "raised"
           /\ exported.outcome.frame = NoFrame
           /\ exported.outcome.metadata = NoExportMetadata
           /\ exported.op = "export_jobs_to_csv"
                 => /\ exported.outcome.exc.class = "ExportError"
                    /\ Contains(exported.outcome.exc.message, "No jobs to export")
           /\ exported.op = "validate_export_request"
                 => exported.outcome.exc.class = "ValidationError"

\* export_jobs_to_csv has been called with an empty batch.
C12_Witness ==
    /\ exported.op = "export_jobs_to_csv" /\ exported.jobs = <<>>
    /\ exported.outcome.exc.class = "ExportError"

\* C13: GET export/{search_id} for an identifier whose live entry holds an empty
\* batch answers status 500 with a detail containing "Export failed".
C13_EmptyBatchIs500 ==
    (last.op = "export" /\ last.found /\ last.entry.jobs = <<>>)
        => /\ last.status = 500
           /\ \E i \in 1..Len(last.detail) : last.detail[i] = "Export failed: "

\* C14: GET export/{search_id}/info is read-only: whatever the identifier and
\* the cache hold (an expired, unswept entry under the identifier included),
\* the cache after the request is the cache before it.
C14_InfoIsReadOnly ==
    [][(last'.op = "export_info" /\ last'.at = now /\ now' = now)
          => cache' = cache]_vars

\* The value is the source's placeholder for "no value".
IsPlaceholder(value) == value \in {NULL, "None"}

\* C15: in the record made from a row, job_type is absent when the job_type
\* column holds the placeholder, location is absent when the location column
\* does, and compensation is absent when min_amount, max_amount and interval
\* all do.
C15_PlaceholdersAreAbsent ==
    (normalized.called /\ normalized.outcome.ok)
        => LET row == normalized.row
               job == normalized.outcome.job
           IN  /\ IsPlaceholder(row.job_type) => job.job_type = <<>>
               /\ IsPlaceholder(row.location) => ~job.location.present
               /\ (IsPlaceholder(row.min_amount) /\ IsPlaceholder(row.max_amount)
                     /\ IsPlaceholder(row.interval))
                    => ~job.compensation.present

\* C16: every record in the response of a completed search carries the search
\* identifier of that response's metadata, which is the identifier made for
\* this search, and a site that is present.
C16_RecordsAreAttributable ==
    svc.result = "returned"
        => LET response == svc.response
           IN  /\ response.search_metadata.search_id = CurrentSearchId
               /\ \A i \in 1..Len(response.jobs) :
                     /\ response.jobs[i].search_id = response.search_metadata.search_id
                     /\ response.jobs[i].site \notin {NULL, ""}
                     /\ response.jobs[i].site = ext.df_result[response.jobs[i].id].site

\* The second search has completed with two records.
C16_Witness ==
    /\ pc = "done" /\ svc.result = "returned" /\ n_searches = 2
    /\ Len(resp.response.jobs) = 2
    /\ resp.response.jobs[2].search_id = SearchIdOf(2)

\* C17: when the external source returns zero rows the search completes with
\* no records, total_results = 0, total_results_found = 0, one warning that
\* contains "No jobs found", no error, and every requested site successful.
C17_ZeroRowsIsSuccess ==
    (pc = "done" /\ ext.state = "returned" /\ ext.df_result = <<>>)
        => LET response == svc.response
           IN  /\ svc.result = "returned"
               /\ resp.status = 200 /\ resp.response = response
               /\ response.jobs = <<>>
               /\ response.total_results = 0
               /\ response.search_metadata.total_results_found = 0
               /\ Len(response.warnings) = 1
               /\ Contains(response.warnings[1], "No jobs found")
               /\ response.errors = <<>>
               /\ response.search_metadata.failed_sites = <<>>
               /\ response.search_metadata.successful_sites = req.site_names
               /\ response.search_metadata.total_sites_searched = Len(req.site_names)

\* A search of two sites has completed with zero rows.
C17_Witness ==
    /\ pc = "done" /\ ext.state = "returned" /\ ext.df_result = <<>>
    /\ Len(req.site_names) = 2
    /\ resp.status = 200 /\ Len(resp.response.warnings) = 1

\* The sequence without its elements at the positions where the columns
\* name "description".
WithoutDescription(cells, columns) ==
    LET kept == SelectSeq([i \in 1..Len(columns) |-> i],
                          LAMBDA i : columns[i] # "description")
    IN  [k \in 1..Len(kept) |-> cells[kept[k]]]

\* C18: for a non-empty batch and either value of include_company_details,
\* the export with include_description = false has the columns of the export
\* with include_description = true less the one column "description", in the
\* same order, and in every row the same values under them.
C18_OnlyDescriptionIsDropped ==
    (exported.op = "export_jobs_to_csv" /\ exported.jobs # <<>>
       /\ ~exported.include_description)
        => LET without == exported.outcome.frame
               with == export_jobs_to_csv(exported.jobs, exported.outcome.metadata.search_id,
                                          TRUE, exported.include_company_details,
                                          NULL).frame
           IN  /\ exported.outcome.result = "returned"
               /\ Cardinality({i \in 1..Len(with.columns) :
                                  with.columns[i] = "description"}) = 1
               /\ Len(without.columns) = Len(with.columns) - 1
               /\ without.columns = WithoutDescription(with.columns, with.columns)
               /\ Len(without.rows) = Len(exported.jobs)
               /\ \A i \in 1..Len(without.rows) :
                     without.rows[i] = WithoutDescription(with.rows[i], with.columns)

\* A batch of two jobs, one with a description, has been exported without
\* descriptions and with the company details.
C18_Witness ==
    /\ exported.op = "export_jobs_to_csv" /\ exported.outcome.result = "returned"
    /\ ~exported.include_description /\ exported.include_company_details
    /\ Len(exported.jobs) = 2
    /\ \E i \in 1..2 : exported.jobs[i].description # NULL
    /\ \E i \in 1..2 : exported.jobs[i].description = NULL

\* C19: the dict made from a valid request has the request's site names, in
\* their order, with "zip_recruiter" respelt "ziprecruiter" and no other name
\* changed; it has no entry whose value is None; and each optional field of the
\* request is in it, with the request's value, exactly when the request sets it.
C19_MappingStripsUnset ==
    mapped.called
        => LET search_request == mapped.request
               params == mapped.params
           IN  /\ Len(params.site_name) = Len(search_request.site_names)
               /\ \A i \in 1..Len(params.site_name) :
                     params.site_name[i] =
                         IF search_request.site_names[i] = "zip_recruiter"
                         THEN "ziprecruiter" ELSE search_request.site_names[i]
               /\ \A k \in DOMAIN params.entries : params.entries[k] # NULL
               /\ \A k \in {"search_term", "location", "job_type", "distance",
                             "hours_old"} :
                     /\ k \in DOMAIN params.entries <=> search_request[k] # NULL
                     /\ k \in DOMAIN params.entries
                           => params.entries[k] = search_request[k]

\* A request naming zip_recruiter after indeed, with a job type and without
\* hours_old, location and distance, has been mapped.
C19_Witness ==
    /\ mapped.called
    /\ mapped.request.site_names = <<"indeed", "zip_recruiter">>
    /\ mapped.params.site_name = <<"indeed", "ziprecruiter">>
    /\ DOMAIN mapped.params.entries =
           {"search_term", "job_type", "is_remote", "results_wanted", "country_indeed",
            "description_format", "verbose"}

\* The task is inside the section the lock protects.
InSection(t) == tasks[t].pc \in {"acquired", "read", "written"}

\* C20: under every interleaving of store, get, remove, clear, stats and the
\* sweep, (1) at most one task is inside the locked section, and it is the
\* holder of the lock; (2) the map is read and changed only by the holder, so
\* nothing changes it between a call's read and its write; (3) no del
\* statement meets a missing key, also when a get and a sweep delete the same
\* expired key; (4) what a get returns is what the map holds when it returns,
\* and stats counts the map as it is; (5) a get that is the next call after a
\* completed store of its key reads the entry of that store.
C20_LockSerializes ==
    [][/\ Cardinality({t \in DOMAIN tasks : InSection(t)'}) <= 1
       /\ \A t \in DOMAIN tasks : InSection(t)' <=> lock' = t
       /\ cache' # cache
             => /\ lock \in DOMAIN tasks
                /\ tasks'[lock] # tasks[lock]
                /\ \A u \in DOMAIN tasks \ {lock} : tasks'[u] = tasks[u]
       /\ \A t \in DOMAIN tasks :
             /\ ~tasks'[t].error
             /\ (tasks[t].pc = "acquired" /\ tasks'[t].pc = "read") => lock = t
             /\ (tasks[t].pc = "written" /\ tasks'[t].pc = "idle" /\ tasks[t].op = "get")
                   => IF tasks[t].found
                      THEN /\ tasks[t].key \in DOMAIN cache
                           /\ cache[tasks[t].key] = tasks[t].entry
                      ELSE tasks[t].key \notin DOMAIN cache
             /\ (tasks[t].pc = "written" /\ tasks'[t].pc = "idle"
                   /\ tasks[t].op = "stats")
                   => /\ tasks[t].count = Cardinality(DOMAIN cache)
                      /\ tasks[t].expired <= tasks[t].count
             /\ (tasks[t].pc = "acquired" /\ tasks'[t].pc = "read"
                   /\ tasks[t].op = "get"
                   /\ last.op = "store" /\ last.key = tasks[t].key)
                   => /\ tasks'[t].entry = last.entry
                      /\ tasks'[t].found
                            <=> ~is_expired(last.entry, default_ttl_minutes, now)]_vars

\* A get has read an expired entry and is about to delete it, while the sweep
\* and a store of the same key wait for the lock.
C20_Witness ==
    /\ tasks[CleanupTask].pc = "waiting" /\ tasks[CleanupTask].op = "sweep"
    /\ \E t \in RequestTasks :
          /\ lock = t
          /\ tasks[t].op = "get" /\ tasks[t].pc = "read"
          /\ tasks[t].keys = {tasks[t].key}
          /\ \E u \in RequestTasks \ {t} :
                /\ tasks[u].pc = "waiting" /\ tasks[u].op = "store"
                /\ tasks[u].key = tasks[t].key

\* A step of _cleanup_expired_entries, and one of get_cache_stats.
SweepStep == last'.op = "sweep" /\ last'.at = now /\ now' = now /\ last' # last
StatsStep == last'.op = "stats" /\ last'.at = now /\ now' = now

\* C21: get, the sweep and stats classify every entry with one predicate, now
\* strictly later than the stored time plus the TTL.  At any instant get reports
\* an entry of the map absent exactly when it is that old; a sweep removes all
\* and only the entries get would report absent, leaves every other entry as
\* it was and returns their number; stats counts exactly those entries as
\* expired.
C21_OnePredicate ==
    [][/\ \A k \in DOMAIN cache :
             get_returns(k) = NoEntry
                <=> now > cache[k].timestamp + default_ttl_minutes
       /\ SweepStep
             => /\ DOMAIN cache' = {k \in DOMAIN cache : get_returns(k) # NoEntry}
                /\ \A k \in DOMAIN cache' : cache'[k] = cache[k]
                /\ last'.count = Cardinality(DOMAIN cache \ DOMAIN cache')
       /\ StatsStep
             => last'.count
                  = Cardinality({k \in DOMAIN cache : get_returns(k) = NoEntry})]_vars

\* A sweep has removed one entry, expired, and left another, stored exactly one
\* TTL before the sweep and so still live.
C21_Witness ==
    /\ last.op = "sweep" /\ last.count = 1 /\ last.at = now
    /\ \E k \in DOMAIN cache : now = cache[k].timestamp + default_ttl_minutes

\* The step in which the section of a store by task t assigns the entry and
\* looks after the cleanup task (lines 69-73).
StoreWrites(t) ==
    tasks[t].op = "store" /\ tasks[t].pc = "read" /\ tasks'[t].pc = "written"

\* C22: no sweep task exists before the first store; when the section of a
\* store is through, exactly one sweep task is alive; a store that finds no
\* task, or the last one finished, starts one, and a store that finds it alive
\* starts none; sweep tasks start nowhere else; and however the stores of
\* concurrent tasks interleave, at most one sweep task is alive.
C22_OneSweepTask ==
    [][/\ sweeps' \in {0, 1}
       /\ cleanup_task' = "none" => sweeps' = 0 /\ cache' = EmptyDict
       /\ sweeps' > sweeps => \E t \in RequestTasks : StoreWrites(t)
       /\ \A t \in RequestTasks :
             StoreWrites(t)
                => /\ sweeps' = 1 /\ cleanup_task' = "sleeping"
                   /\ sweeps' = IF cleanup_task = "sleeping" THEN sweeps ELSE sweeps + 1]_vars

\* The sweep task was cancelled, and of two tasks that store concurrently the
\* first has started a new one while the second waits for the lock.
C22_Witness ==
    /\ last.op = "cancel" /\ cleanup_task = "sleeping" /\ sweeps = 1
    /\ \E t \in RequestTasks, u \in RequestTasks :
          /\ tasks[t].op = "store" /\ tasks[t].pc = "written"
          /\ tasks[u].op = "store" /\ tasks[u].pc = "waiting"

\* C23: when the shutdown phase of lifespan runs while a sweep task is alive,
\* the task is cancelled: it is finished when the phase is through.
C23_ShutdownCancelsSweep ==
    [][(last'.op = "shutdown" /\ last.op # "shutdown" /\ cleanup_task = "sleeping")
          => cleanup_task' = "done"]_vars

\* An entry of the map under k is expired.
ExpiredIn(k) == k \in DOMAIN cache /\ now > cache[k].timestamp + default_ttl_minutes

C25_OneSharedPool ==
    Cardinality({r \in CallIds : calls[r].work = "running"}) <= max_workers

\* The calls of a service that run on for callers that have timed out.
Abandoned(service) == {r \in Busy(service) : calls[r].at = "timed_out"}

\* C26: a timeout ends the caller's wait and leaves the call on its worker;
\* while abandoned calls hold every worker of a service's pool, a search
\* dispatched on the service is queued; a queued call begins only in a step in
\* which a call on the service returns, and a search whose wait ends while its
\* call is queued ends timed out; the busy workers of the service become fewer
\* only when a call returns, and never exceed max_workers.
C26_TimeoutLeavesWorkerBusy ==
    [][/\ \A r \in CallIds :
             /\ (calls[r].at = "awaiting_result" /\ calls'[r].at = "timed_out"
                   /\ calls[r].work = "running")
                   => calls'[r].work = "running"
             /\ (calls[r].at = "parameter_mapped" /\ calls'[r].at = "dispatched"
                   /\ Cardinality(Abandoned(calls[r].service)) = max_workers)
                   => calls'[r].work = "queued"
             /\ (calls[r].work = "queued" /\ calls'[r].work = "running")
                   => \E q \in Busy(calls[r].service) :
                         calls'[q].work = "ended"
             /\ (calls[r].work = "queued" /\ calls[r].at = "awaiting_result"
                   /\ calls'[r].at # "awaiting_result" /\ calls'[r].work # "running")
                   => calls'[r].at = "timed_out" /\ calls'[r].work = "cancelled"
       /\ Cardinality(Busy(TheService))' < Cardinality(Busy(TheService))
             => \E q \in Busy(TheService) : calls'[q].work = "ended"
       /\ Cardinality(Busy(TheService))' <= max_workers]_vars

\* Abandoned calls hold every worker of the service, and a search dispatched
\* after them has timed out without its call ever beginning.
C26_Witness ==
    /\ Cardinality(Abandoned(TheService)) = max_workers
    /\ \E r \in CallIds :
          /\ calls[r].service = TheService
          /\ calls[r].at = "timed_out" /\ calls[r].work = "cancelled"

\* The steps from one state of an invocation to the next.
PhaseOrder ==
    {<<"none", "received">>, <<"received", "parameter_mapped">>,
     <<"parameter_mapped", "dispatched">>, <<"dispatched", "awaiting_result">>,
     <<"awaiting_result", "completed">>, <<"awaiting_result", "timed_out">>,
     <<"awaiting_result", "failed">>}

\* C27: every invocation of search_jobs goes from received to
\* parameter-mapped, dispatched and awaiting-result in this order and from
\* there to one of completed, timed-out and failed, where it stays; and every
\* invocation received does reach one of the three, whether or not its call
\* ever returns or ever gets a worker.
C27_EverySearchEnds ==
    /\ [][\A r \in CallIds :
             calls'[r].at # calls[r].at => <<calls[r].at, calls'[r].at>> \in PhaseOrder]_vars
    /\ \A r \in CallIds :
          (calls[r].at = "received")
             ~> (calls[r].at \in {"completed", "timed_out", "failed"})

\* One search has completed, one has failed, one has timed out while its call
\* runs on, and one has timed out without its call getting a worker.
C27_Witness ==
    /\ \E r \in CallIds : calls[r].at = "completed"
    /\ \E r \in CallIds : calls[r].at = "failed"
    /\ \E r \in CallIds : calls[r].at = "timed_out" /\ calls[r].work = "running"
    /\ \E r \in CallIds : calls[r].at = "timed_out" /\ calls[r].work = "cancelled"

\* C28: search_jobs raises SearchTimeoutError when its wait timed out and
\* otherwise only a JobSearchError with code SEARCH_ERROR whose message carries
\* the text of the original error: what the external call raises never
\* reaches the caller as anything else.
C28_FailuresAreWrapped ==
    (pc = "done" /\ svc.result = "raised" /\ ext.state # "none")
        => IF ext.state = "abandoned"
           THEN svc.exc.class = "SearchTimeoutError"
           ELSE /\ svc.exc.class = "JobSearchError"
                /\ svc.exc.error_code = "SEARCH_ERROR"
                /\ ext.state = "raised"
                      => svc.exc.message = <<"Unexpected error during job search: ">>
                                              \o ExternalErrorText(ext.error)

\* C29: in every SearchMetadata the orchestrator builds, total_sites_searched
\* is the number of successful sites plus the number of failed sites.
C29_TotalIsSuccessfulPlusFailed ==
    classified.called
        => classified.metadata.total_sites_searched
              = Len(classified.metadata.successful_sites)
                + Len(classified.metadata.failed_sites)

\* Some error message names the site, whatever the case of the letters.
Named(site, errors) ==
    \E e \in 1..Len(errors) : \E f \in 1..Len(errors[e]) : Lower(errors[e][f]) = Lower(site)

\* C30: a requested site is in failed_sites exactly when some error message
\* names it, compared without regard to case, and in successful_sites exactly
\* when none does; the two lists hold requested sites only and share none; and
\* successful_sites is the request's list without the failed sites, in the
\* request's order.
C30_SitesAreClassified ==
    classified.called
        => LET names == classified.site_names
               errors == classified.errors
               failed == classified.metadata.failed_sites
               successful == classified.metadata.successful_sites
           IN  /\ \A i \in 1..Len(names) :
                     /\ InSeq(names[i], failed) <=> Named(names[i], errors)
                     /\ InSeq(names[i], successful) <=> ~Named(names[i], errors)
               /\ \A i \in 1..Len(failed) : InSeq(failed[i], names)
               /\ \A i \in 1..Len(successful) : ~InSeq(successful[i], failed)
               /\ successful = SelectSeq(names, LAMBDA site : ~Named(site, errors))

\* Of two requested sites one is named, capitalised, by an error message and
\* is failed, and the other is successful.
C30_Witness ==
    /\ classified.called
    /\ classified.site_names = <<"zip_recruiter", "indeed">>
    /\ classified.errors = << <<"Indeed", " returned a bad response">> >>
    /\ classified.metadata.failed_sites = <<"indeed">>
    /\ classified.metadata.successful_sites = <<"zip_recruiter">>

====
